---- MODULE Spec2Model ----
(***************************************************************************)
(* IDSyncro: identifier allocation and tamper-evidence.                    *)
(*                                                                         *)
(* Part 1 models the SQLite-backed server's employee identifier allocator  *)
(* (generateIdNumber) and the handlers that call it, statement by          *)
(* statement, on the single shared database connection.                    *)
(* Part 2 models canonicalizeCertificateData as a function on field maps.  *)
(*                                                                         *)
(* Strings the code builds or parses are sequences of one-character        *)
(* strings, so that formatting (padStart) and parsing (SUBSTR, CAST, LIKE) *)
(* are computed, not assumed.                                              *)
(***************************************************************************)
EXTENDS Integers, Sequences, FiniteSets, Bags, TLC

VARIABLES
    employees,      \* rows of table employees: [id, employee_id, type]
    nextRowId,      \* AUTOINCREMENT sequence of employees.id
    id_counters,    \* table id_counters: type -> counter
    txn,            \* the shared connection's open transaction (snapshot)
    reqs,           \* bag of the HTTP requests in flight (handler locals)
    answers,        \* history: [kind, result] of the responses sent
    nOps,           \* number of requests accepted so far
    allocLog,       \* history: every identifier generateIdNumber resolved with
    everPersisted,  \* history: every employee_id ever stored in employees
    discarded,      \* history: identifiers replaced by a type change
    kinds,          \* history: kinds of the requests accepted so far
    overlapped,     \* history: a request was accepted while another was in flight
    cA, cB,         \* two certificate field maps (sequences of [k, v])
    cOutA, cOutB,   \* their canonical strings
    fpA, fpB,       \* the fingerprints of the canonical strings
    sFp,            \* a fingerprint to sign
    sPriv, sPub,    \* the key it is signed with, the key it is verified with
    sSig,           \* the signature presented to verifySignature
    sOut,           \* what verifySignature did: TRUE, FALSE or "threw"
    certificates,           \* rows of table certificates
    certificate_batches,    \* rows of table certificate_batches
    offer_letters_staging,  \* rows of table offer_letters_staging
    offer_letters,          \* rows of table offer_letters
    offer_letter_batches,   \* rows of table offer_letter_batches
    docSeq,                 \* AUTOINCREMENT sequences of certificates, offer_letters
    JWT_SECRET              \* process.env.JWT_SECRET || '' of the authenticated server

srvVars == <<employees, nextRowId, id_counters, txn, reqs, answers, nOps,
             allocLog, everPersisted, discarded, kinds, overlapped>>
canonVars == <<cA, cB, cOutA, cOutB, fpA, fpB>>
signVars == <<sFp, sPriv, sPub, sSig, sOut>>
docVars == <<certificates, certificate_batches, offer_letters_staging,
             offer_letters, offer_letter_batches, docSeq>>
\* what the employee handlers have no access to
cfgVars == <<JWT_SECRET>>
pureVars == <<canonVars, signVars, cfgVars>>
\* what canonicalization and fingerprinting have no access to
notCanon == <<srvVars, docVars, signVars, cfgVars>>
vars == <<srvVars, docVars, canonVars, signVars, cfgVars>>

-----------------------------------------------------------------------------
(* Bounds of the model *)

\* requests that may be in flight at the same time
MaxClients == 2
\* requests accepted in one behaviour
MaxOps == 3
\* key pairs generateKeyPair has made
MaxKeys == 3

-----------------------------------------------------------------------------
(* Text helpers: JavaScript and SQLite string operations *)

DigitChars == <<"0", "1", "2", "3", "4", "5", "6", "7", "8", "9">>

IsDigit(c) == \E d \in 1..10 : DigitChars[d] = c

DigitVal(c) == (CHOOSE d \in 1..10 : DigitChars[d] = c) - 1

\* Number.prototype.toString() for a non-negative integer
RECURSIVE NumToString(_)
NumToString(n) ==
    IF n < 10 THEN <<DigitChars[n + 1]>>
    ELSE NumToString(n \div 10) \o <<DigitChars[(n % 10) + 1]>>

\* String.prototype.padStart(len, c)
RECURSIVE PadStart(_, _, _)
PadStart(s, len, c) ==
    IF Len(s) >= len THEN s ELSE PadStart(<<c>> \o s, len, c)

\* SQLite SUBSTR(s, -k): the last k characters
SubstrLast(s, k) ==
    IF Len(s) <= k THEN s ELSE SubSeq(s, Len(s) - k + 1, Len(s))

\* SQLite CAST(s AS INTEGER): the value of the longest prefix of digits
RECURSIVE CastTail(_, _)
CastTail(s, acc) ==
    IF s = <<>> \/ ~IsDigit(Head(s)) THEN acc
    ELSE CastTail(Tail(s), acc * 10 + DigitVal(Head(s)))

CastInteger(s) == CastTail(s, 0)

\* SQLite  s LIKE 'prefix%'
LikePrefix(s, prefix) ==
    Len(s) >= Len(prefix) /\ SubSeq(s, 1, Len(prefix)) = prefix

SetMax(S) == CHOOSE m \in S : \A x \in S : x <= m

-----------------------------------------------------------------------------
(* Part 1: the employee identifier allocator *)

Types == {"employee", "intern"}

\* the ceiling of the 4-digit counter
MaxIdNumber == 9999

\* new Date().getFullYear().toString().slice(-2)
Year == <<"2", "5">>

TypeCode(type) ==
    IF type = "employee" THEN <<"E", "M", "P">> ELSE <<"I", "N", "T">>

\* `SWT-${year}-${typeCode}-`
IdPrefix(type) ==
    <<"S", "W", "T", "-">> \o Year \o <<"-">> \o TypeCode(type) \o <<"-">>

\* `SWT-${year}-${typeCode}-${nextNumber.toString().padStart(4, '0')}`
FormatId(type, nextNumber) ==
    IdPrefix(type) \o PadStart(NumToString(nextNumber), 4, "0")

\* CAST(SUBSTR(employee_id, -4) AS INTEGER)
SuffixOf(employee_id) == CastInteger(SubstrLast(employee_id, 4))

\* SELECT MAX(CAST(SUBSTR(employee_id, -4) AS INTEGER)) FROM employees
\*  WHERE type = ? AND employee_id LIKE ?      (NULL, read as 0, without rows)
MaxNum(rows, type) ==
    LET hit == {e \in rows : e.type = type /\ LikePrefix(e.employee_id, IdPrefix(type))}
    IN  IF hit = {} THEN 0 ELSE SetMax({SuffixOf(e.employee_id) : e \in hit})

\* (row && row.max_num ? row.max_num : 0) + 1
NextNumber(rows, type) == MaxNum(rows, type) + 1

\* if (nextNumber > 9999)
ExceedsLimit(nextNumber) == nextNumber > MaxIdNumber

NoId == <<>>
NoRow == [id |-> 0, employee_id |-> NoId, type |-> "none"]

\* the locals of a handler that has just been entered
NewReq(kind, pc, type) ==
    [kind |-> kind, pc |-> pc, type |-> type, ids |-> <<>>,
     emp |-> NoRow, next |-> 0, employeeId |-> NoId]

NoTxn == [open |-> FALSE, employees |-> {}, nextRowId |-> 0,
          id_counters |-> [t \in Types |-> 0]]

\* the employees tables the server may find in idsyncro.db when it starts
SeedTables ==
    { {},
      {[id |-> 1, employee_id |-> FormatId("intern", 7), type |-> "intern"]},
      {[id |-> 1, employee_id |-> FormatId("employee", MaxIdNumber - 1),
        type |-> "employee"]} }

\* counters as the start-up code inserts them into an empty id_counters table
StartupCounters(rows) == [t \in Types |-> MaxNum(rows, t)]

RowsWithId(rows, id) == {e \in rows : e.id = id}

Active == BagToSet(reqs)

One(q) == SetToBag({q})

\* request q moves on to q2
Step(q, q2) == reqs' = (reqs (-) One(q)) (+) One(q2)

\* the response to request q is sent
Answer(q, res) == answers' = answers \cup {[kind |-> q.kind, result |-> res]}

\* request q is answered and ends
Finish(q, res) == reqs' = reqs (-) One(q) /\ Answer(q, res)

\* highest suffix issued so far in the scope of `type`: stored at some time,
\* or returned by the allocator
HighestIssued(type) ==
    LET ids == {i \in everPersisted \cup {allocLog[k].id : k \in 1..Len(allocLog)} :
                    LikePrefix(i, IdPrefix(type))}
    IN  IF ids = {} THEN 0 ELSE SetMax({SuffixOf(i) : i \in ids})

\* a request arrives
Accept(kind) ==
    /\ nOps < MaxOps
    /\ BagCardinality(reqs) < MaxClients
    /\ nOps' = nOps + 1
    /\ kinds' = kinds \cup {kind}
    /\ overlapped' = (overlapped \/ Active # {})

SrvInit ==
    /\ employees \in SeedTables
    /\ nextRowId = Cardinality(employees) + 1
    /\ id_counters = StartupCounters(employees)
    /\ txn = NoTxn
    /\ reqs = EmptyBag
    /\ answers = {}
    /\ nOps = 0
    /\ allocLog = <<>>
    /\ everPersisted = {e.employee_id : e \in employees}
    /\ discarded = {}
    /\ kinds = {}
    /\ overlapped = FALSE

(* ---- generateIdNumber(type), one action per SQL statement ---- *)

\* db.run('BEGIN IMMEDIATE TRANSACTION'): an error when the connection already
\* has a transaction open; the promise is then rejected and nothing rolled back
AllocBegin(q) ==
    /\ q.pc = "begin"
    /\ IF txn.open
       THEN /\ Finish(q, "txn_error")
            /\ txn' = txn
       ELSE /\ txn' = [open |-> TRUE, employees |-> employees,
                       nextRowId |-> nextRowId, id_counters |-> id_counters]
            /\ Step(q, [q EXCEPT !.pc = "get"])
            /\ answers' = answers
    /\ UNCHANGED <<employees, nextRowId, id_counters, nOps, allocLog,
                   everPersisted, discarded, kinds, overlapped>>

\* db.get(SELECT MAX(...)), then the limit test; on the limit the ROLLBACK is
\* queued and the promise rejected at once
AllocGet(q) ==
    /\ q.pc = "get"
    /\ LET nextNumber == NextNumber(employees, q.type)
       IN  IF ExceedsLimit(nextNumber)
           THEN Step(q, [q EXCEPT !.pc = "rollback"]) /\ Answer(q, "capacity")
           ELSE Step(q, [q EXCEPT !.pc = "upd", !.next = nextNumber])
                    /\ answers' = answers
    /\ UNCHANGED <<employees, nextRowId, id_counters, txn, nOps, allocLog,
                   everPersisted, discarded, kinds, overlapped>>

\* INSERT OR REPLACE INTO id_counters (type, year, counter): type is the key
CounterAfter(counters, type, nextNumber) ==
    [counters EXCEPT ![type] = nextNumber]

AllocUpdateCounter(q) ==
    /\ q.pc = "upd"
    /\ id_counters' = CounterAfter(id_counters, q.type, q.next)
    /\ Step(q, [q EXCEPT !.pc = "commit"])
    /\ UNCHANGED <<employees, nextRowId, txn, answers, nOps, allocLog,
                   everPersisted, discarded, kinds, overlapped>>

\* where the caller continues once generateIdNumber has resolved
AfterAlloc(kind) ==
    IF kind = "create" THEN "insert"
    ELSE IF kind = "update" THEN "update" ELSE "bupdate"

\* db.run('COMMIT') and resolve(newId)
AllocCommit(q) ==
    /\ q.pc = "commit"
    /\ txn.open
    /\ LET newId == FormatId(q.type, q.next)
       IN  /\ Step(q, [q EXCEPT !.pc = AfterAlloc(q.kind), !.employeeId = newId])
           /\ allocLog' = Append(allocLog,
                  [id |-> newId, type |-> q.type,
                   prevHigh |-> HighestIssued(q.type),
                   persistedBefore |-> newId \in everPersisted,
                   discardedBefore |-> newId \in discarded])
    /\ txn' = NoTxn
    /\ UNCHANGED <<employees, nextRowId, id_counters, answers, nOps,
                   everPersisted, discarded, kinds, overlapped>>

\* db.run('ROLLBACK') queued by the limit test: the tables return to the BEGIN
AllocRollback(q) ==
    /\ q.pc = "rollback"
    /\ txn.open
    /\ employees' = txn.employees
    /\ nextRowId' = txn.nextRowId
    /\ id_counters' = txn.id_counters
    /\ txn' = NoTxn
    /\ reqs' = reqs (-) One(q)
    /\ UNCHANGED <<answers, nOps, allocLog, everPersisted, discarded, kinds,
                   overlapped>>

(* ---- POST /api/employees ---- *)

\* validation passed; the handler awaits generateIdNumber(type)
StartCreate(t) ==
    /\ Accept("create")
    /\ reqs' = reqs (+) One(NewReq("create", "begin", t))
    /\ UNCHANGED <<employees, nextRowId, id_counters, txn, answers, allocLog,
                   everPersisted, discarded>>

\* a table without the UNIQUE constraint
UniqueNotEnforced(rows, id, employee_id) == FALSE

\* employee_id TEXT UNIQUE: does storing employee_id in row `id` break it
UniqueViolation(rows, id, employee_id) ==
    \E e \in rows : e.id # id /\ e.employee_id = employee_id

\* INSERT INTO employees (...), after the QR code was rendered:
\* 'UNIQUE constraint failed' is answered 409, success 200
InsertEmployee(q) ==
    /\ q.pc = "insert"
    /\ IF UniqueViolation(employees, nextRowId, q.employeeId)
       THEN /\ Finish(q, "conflict")
            /\ UNCHANGED <<employees, nextRowId, everPersisted>>
       ELSE /\ employees' = employees \cup
                    {[id |-> nextRowId, employee_id |-> q.employeeId,
                      type |-> q.type]}
            /\ nextRowId' = nextRowId + 1
            /\ everPersisted' = everPersisted \cup {q.employeeId}
            /\ Finish(q, "ok")
    /\ UNCHANGED <<id_counters, txn, nOps, allocLog, discarded, kinds, overlapped>>

(* ---- DELETE /api/employees/:id ---- *)

\* DELETE FROM employees WHERE id = ?
DeleteEmployee(id) ==
    /\ RowsWithId(employees, id) # {}
    /\ Accept("delete")
    /\ employees' = employees \ RowsWithId(employees, id)
    /\ UNCHANGED <<nextRowId, id_counters, txn, reqs, answers, allocLog,
                   everPersisted, discarded>>

(* ---- PUT /api/employees/:id ---- *)

\* SELECT * FROM employees WHERE id = ?, then: a new identifier if the type
\* changed, else the identifier just read
StartUpdate(id, t) ==
    /\ RowsWithId(employees, id) # {}
    /\ Accept("update")
    /\ LET employee == CHOOSE e \in employees : e.id = id
       IN  reqs' = reqs (+) One(
                [NewReq("update", IF t # employee.type THEN "begin" ELSE "update", t)
                    EXCEPT !.emp = employee, !.employeeId = employee.employee_id])
    /\ UNCHANGED <<employees, nextRowId, id_counters, txn, answers, allocLog,
                   everPersisted, discarded>>

\* an UPDATE of row `id` fails when it breaks UNIQUE
UpdateFails(rows, id, employee_id) ==
    RowsWithId(rows, id) # {} /\ UniqueViolation(rows, id, employee_id)

\* UPDATE employees SET type = ?, employee_id = ? ... WHERE id = ?
\* (no such row: nothing changes)
RowsAfterUpdate(rows, id, type, employee_id) ==
    IF RowsWithId(rows, id) = {} \/ UpdateFails(rows, id, employee_id)
    THEN rows
    ELSE (rows \ RowsWithId(rows, id))
            \cup {[id |-> id, employee_id |-> employee_id, type |-> type]}

\* history: the identifiers an UPDATE takes out of the table
Replaced(rows, id, employee_id) ==
    IF UpdateFails(rows, id, employee_id) THEN {}
    ELSE {e.employee_id : e \in {x \in RowsWithId(rows, id) :
                                    x.employee_id # employee_id}}

\* history: the identifier an UPDATE stores
Stored(rows, id, employee_id) ==
    IF RowsWithId(rows, id) = {} \/ UpdateFails(rows, id, employee_id)
    THEN {} ELSE {employee_id}

UpdateEmployee(q) ==
    /\ q.pc = "update"
    /\ employees' = RowsAfterUpdate(employees, q.emp.id, q.type, q.employeeId)
    /\ discarded' = discarded \cup Replaced(employees, q.emp.id, q.employeeId)
    /\ everPersisted' = everPersisted \cup Stored(employees, q.emp.id, q.employeeId)
    /\ Finish(q, IF UpdateFails(employees, q.emp.id, q.employeeId)
                 THEN "db_error" ELSE "ok")
    /\ UNCHANGED <<nextRowId, id_counters, txn, nOps, allocLog, kinds, overlapped>>

(* ---- PATCH /api/bulk-type-update ---- *)

\* the id lists a request may carry: the existing ids, ascending, one or more
RECURSIVE Ascending(_)
Ascending(S) ==
    IF S = {} THEN <<>>
    ELSE LET m == CHOOSE x \in S : \A y \in S : x <= y
         IN  <<m>> \o Ascending(S \ {m})

IdLists(S) == {Ascending(T) : T \in (SUBSET S) \ {{}}}

StartBulk(ids, t) ==
    /\ Accept("bulk")
    /\ reqs' = reqs (+) One([NewReq("bulk", "bselect", t) EXCEPT !.ids = ids])
    /\ UNCHANGED <<employees, nextRowId, id_counters, txn, answers, allocLog,
                   everPersisted, discarded>>

\* the loop moves to the next id, or the 200 is sent after the last
BulkAdvance(q) ==
    IF Len(q.ids) <= 1
    THEN Finish(q, "ok")
    ELSE /\ Step(q, [NewReq("bulk", "bselect", q.type) EXCEPT !.ids = Tail(q.ids)])
         /\ answers' = answers

\* SELECT * FROM employees WHERE id = ?; a row of another type gets a new id
BulkSelect(q) ==
    /\ q.pc = "bselect"
    /\ LET rows == RowsWithId(employees, Head(q.ids))
       IN  IF rows # {} /\ (CHOOSE e \in rows : TRUE).type # q.type
           THEN /\ Step(q, [q EXCEPT !.emp = CHOOSE e \in rows : TRUE,
                                     !.pc = "begin"])
                /\ answers' = answers
           ELSE BulkAdvance(q)
    /\ UNCHANGED <<employees, nextRowId, id_counters, txn, nOps, allocLog,
                   everPersisted, discarded, kinds, overlapped>>

\* UPDATE employees SET type = ?, employee_id = ?, qr_code = ? WHERE id = ?
BulkUpdate(q) ==
    /\ q.pc = "bupdate"
    /\ employees' = RowsAfterUpdate(employees, Head(q.ids), q.type, q.employeeId)
    /\ discarded' = discarded \cup Replaced(employees, Head(q.ids), q.employeeId)
    /\ everPersisted' =
            everPersisted \cup Stored(employees, Head(q.ids), q.employeeId)
    /\ IF UpdateFails(employees, Head(q.ids), q.employeeId)
       THEN Finish(q, "db_error")
       ELSE BulkAdvance(q)
    /\ UNCHANGED <<nextRowId, id_counters, txn, nOps, allocLog, kinds, overlapped>>

(* ---- the server ---- *)

CanonIdle ==
    /\ cA = <<>> /\ cB = <<>>
    /\ cOutA = "" /\ cOutB = ""
    /\ fpA = <<>> /\ fpB = <<>>

\* no key (yet), and something that is not a PEM key
NoKey == 0
NotAKey == -1

NoSignature == [over |-> <<>>, by |-> NoKey]

SignIdle ==
    /\ sFp = <<>> /\ sPriv = NoKey /\ sPub = NoKey
    /\ sSig = NoSignature /\ sOut = "none"

\* a server that was started without JWT_SECRET
Unconfigured == JWT_SECRET = <<>>

\* the tables of certificates and offer letters, just created
DocsEmpty ==
    /\ certificates = {}
    /\ certificate_batches = {}
    /\ offer_letters_staging = {}
    /\ offer_letters = {}
    /\ offer_letter_batches = {}
    /\ docSeq = [certificates |-> 0, offer_letters |-> 0]

Init == SrvInit /\ DocsEmpty /\ CanonIdle /\ SignIdle /\ Unconfigured

RowIds == {e.id : e \in employees}

Next ==
    \/ \E t \in Types : StartCreate(t) /\ UNCHANGED <<docVars, pureVars>>
    \/ \E q \in Active : AllocBegin(q) /\ UNCHANGED <<docVars, pureVars>>
    \/ \E q \in Active : AllocGet(q) /\ UNCHANGED <<docVars, pureVars>>
    \/ \E q \in Active : AllocUpdateCounter(q) /\ UNCHANGED <<docVars, pureVars>>
    \/ \E q \in Active : AllocCommit(q) /\ UNCHANGED <<docVars, pureVars>>
    \/ \E q \in Active : AllocRollback(q) /\ UNCHANGED <<docVars, pureVars>>
    \/ \E q \in Active : InsertEmployee(q) /\ UNCHANGED <<docVars, pureVars>>
    \/ \E id \in RowIds : DeleteEmployee(id) /\ UNCHANGED <<docVars, pureVars>>
    \/ \E id \in RowIds, t \in Types : StartUpdate(id, t) /\ UNCHANGED <<docVars, pureVars>>
    \/ \E q \in Active : UpdateEmployee(q) /\ UNCHANGED <<docVars, pureVars>>
    \/ \E ids \in IdLists(RowIds), t \in Types :
            StartBulk(ids, t) /\ UNCHANGED <<docVars, pureVars>>
    \/ \E q \in Active : BulkSelect(q) /\ UNCHANGED <<docVars, pureVars>>
    \/ \E q \in Active : BulkUpdate(q) /\ UNCHANGED <<docVars, pureVars>>

Spec == Init /\ [][Next]_vars

-----------------------------------------------------------------------------
(* Part 1: properties of the allocator *)

LogIdx == 1..Len(allocLog)

\* request q takes the step
Taken(q) == CopiesIn(q, reqs') < CopiesIn(q, reqs)

Answered(kind, res) == [kind |-> kind, result |-> res] \in answers

\* C1: concurrent employee creations, each allocating before it inserts, never
\* get the same identifier from two allocator calls
C1_DistinctUnderConcurrentCreates ==
    kinds \subseteq {"create"} =>
        \A i, j \in LogIdx : i # j => allocLog[i].id # allocLog[j].id

\* C2: over creations and deletions, one request after the other, the allocator
\* never returns an identifier that some record has held, deleted or not
C2_NoReissueAfterDelete ==
    (kinds \subseteq {"create", "delete"} /\ ~overlapped) =>
        \A i \in LogIdx : ~allocLog[i].persistedBefore

\* C3: an identifier that a type change (single or bulk) took off its record
\* is never returned by a later allocation
C3_DiscardedNeverReissued ==
    (kinds \subseteq {"create", "update", "bulk"} /\ ~overlapped) =>
        \A i \in LogIdx : ~allocLog[i].discardedBefore

\* C4: an allocation made when 9999 is the highest suffix issued in its scope
\* fails with the capacity error: no identifier is returned, and its ROLLBACK
\* closes the transaction with the stored counters as they were
C4_CapacityCeiling ==
    [][\A q \in Active :
        /\ (q.pc = "get" /\ Taken(q) /\ HighestIssued(q.type) = MaxIdNumber) =>
              /\ reqs' = (reqs (-) One(q)) (+) One([q EXCEPT !.pc = "rollback"])
              /\ [kind |-> q.kind, result |-> "capacity"] \in answers'
              /\ allocLog' = allocLog
              /\ id_counters' = id_counters
        /\ (q.pc = "rollback" /\ Taken(q)) =>
              /\ reqs' = reqs (-) One(q)
              /\ txn.open /\ ~txn'.open
              /\ allocLog' = allocLog
              /\ id_counters' = id_counters
              /\ id_counters' = txn.id_counters
      ]_vars

\* C5: concurrent allocations below the capacity all complete with distinct
\* identifiers SWT-YY-TTT-NNNN; none is rejected because the connection has a
\* transaction open
C5_NoAllocationRejected ==
    kinds \subseteq {"create"} =>
        /\ \A a \in answers : a.result # "txn_error"
        /\ \A i \in LogIdx :
              /\ Len(allocLog[i].id) = Len(IdPrefix(allocLog[i].type)) + 4
              /\ LikePrefix(allocLog[i].id, IdPrefix(allocLog[i].type))
        /\ \A i, j \in LogIdx : i # j => allocLog[i].id # allocLog[j].id

\* C6: an allocator call made when n is the highest suffix issued in its scope
\* returns suffix n + 1, so two calls in sequence return n + 1 and n + 2
C6_SequentialCallsIncrement ==
    kinds \subseteq {"create"} =>
        \A i \in LogIdx :
            allocLog[i].id = FormatId(allocLog[i].type, allocLog[i].prevHigh + 1)

\* C7: the stored counter of a scope never decreases
C7_CountersNeverDecrease ==
    [][\A t \in Types : id_counters'[t] >= id_counters[t]]_vars

-----------------------------------------------------------------------------
(* Part 2: canonicalizeCertificateData *)

\* fields an input map may have at the start
MaxFields == 2

\* the characters of the model, in UTF-16 code unit order
CodeOrder ==
    <<" ", "-", "0", "1", "2", "3", "4", "5", "6", "7", "8", "9", "_",
      "a", "b", "c", "d", "e", "f", "g", "h", "i", "j", "k", "l", "m",
      "n", "o", "p", "q", "r", "s", "t", "u", "v", "w", "x", "y", "z">>

CodeUnit(c) == CHOOSE i \in 1..Len(CodeOrder) : CodeOrder[i] = c

\* a < b as JavaScript compares strings: by code units, a prefix first
RECURSIVE StrLess(_, _)
StrLess(a, b) ==
    IF b = <<>> THEN FALSE
    ELSE IF a = <<>> THEN TRUE
    ELSE IF Head(a) # Head(b) THEN CodeUnit(Head(a)) < CodeUnit(Head(b))
    ELSE StrLess(Tail(a), Tail(b))

\* JavaScript values: null, undefined, a string, a number
VNull == [t |-> "null", s |-> <<>>, n |-> 0]
VUndefined == [t |-> "undefined", s |-> <<>>, n |-> 0]
VStr(s) == [t |-> "string", s |-> s, n |-> 0]
VNum(n) == [t |-> "number", s |-> <<>>, n |-> n]

FieldKeys == {<<"a">>, <<" ", "a">>, <<"9">>}

StringValues == {VStr(<<>>), VStr(<<" ">>), VStr(<<"x">>), VStr(<<" ", "x", " ">>)}

FieldValues == {VNull, VUndefined, VNum(0)} \cup StringValues

\* the values a filled-in field holds
FilledValues == {v \in FieldValues : v # VNull /\ v # VUndefined /\ (v.t = "string" => v.s \notin {<<>>, <<" ">>})}

KeysOf(data) == {data[i].k : i \in 1..Len(data)}

\* field maps: sequences of [k, v] in insertion order, keys distinct
RECURSIVE FieldMaps(_, _)
FieldMaps(n, values) ==
    IF n = 0 THEN {<<>>}
    ELSE LET shorter == FieldMaps(n - 1, values)
         IN  shorter \cup
             {Append(p[1], [k |-> p[2], v |-> p[3]]) :
                p \in {x \in shorter \X FieldKeys \X values :
                            x[2] \notin KeysOf(x[1])}}

\* data[key]
ValueAt(data, key) == data[CHOOSE i \in 1..Len(data) : data[i].k = key].v

\* is the key an array index ("0", "9", "10": digits, no leading zero)
IsIndexKey(k) ==
    /\ k # <<>>
    /\ \A i \in 1..Len(k) : IsDigit(k[i])
    /\ (Len(k) > 1 => k[1] # "0")

\* keys, with the array index x put before the first larger one
RECURSIVE InsertIndexKey(_, _)
InsertIndexKey(x, keys) ==
    IF keys = <<>> THEN <<x>>
    ELSE IF CastInteger(x) < CastInteger(Head(keys)) THEN <<x>> \o keys
    ELSE <<Head(keys)>> \o InsertIndexKey(x, Tail(keys))

\* the array-index keys of an object, ascending
RECURSIVE IndexKeys(_)
IndexKeys(data) ==
    IF data = <<>> THEN <<>>
    ELSE IF IsIndexKey(Head(data).k)
    THEN InsertIndexKey(Head(data).k, IndexKeys(Tail(data)))
    ELSE IndexKeys(Tail(data))

\* the other keys of an object, in insertion order
RECURSIVE NamedKeys(_)
NamedKeys(data) ==
    IF data = <<>> THEN <<>>
    ELSE (IF IsIndexKey(Head(data).k) THEN <<>> ELSE <<Head(data).k>>)
            \o NamedKeys(Tail(data))

\* own property order of an object: array indices ascending, then the other
\* keys in insertion order (Object.keys, and JSON.stringify's traversal)
OwnKeys(data) == IndexKeys(data) \o NamedKeys(data)

\* sorted keys, with x put before the first key it is less than
RECURSIVE InsertSorted(_, _)
InsertSorted(x, keys) ==
    IF keys = <<>> THEN <<x>>
    ELSE IF StrLess(x, Head(keys)) THEN <<x>> \o keys
    ELSE <<Head(keys)>> \o InsertSorted(x, Tail(keys))

\* Array.prototype.sort() without a comparator, on distinct strings
RECURSIVE SortKeys(_)
SortKeys(keys) ==
    IF keys = <<>> THEN <<>>
    ELSE InsertSorted(Head(keys), SortKeys(Tail(keys)))

IsSpace(c) == c = " "

\* String.prototype.trim()
RECURSIVE TrimStart(_)
TrimStart(s) ==
    IF s # <<>> /\ IsSpace(Head(s)) THEN TrimStart(Tail(s)) ELSE s

RECURSIVE TrimEnd(_)
TrimEnd(s) ==
    IF s # <<>> /\ IsSpace(s[Len(s)]) THEN TrimEnd(SubSeq(s, 1, Len(s) - 1)) ELSE s

Trim(s) == TrimEnd(TrimStart(s))

\* value !== null && value !== undefined && value !== ''
Kept(value) == value # VNull /\ value # VUndefined /\ value # VStr(<<>>)

\* typeof value === 'string' ? value.trim() : value
Cleaned(value) == IF value.t = "string" THEN VStr(Trim(value.s)) ELSE value

\* the object `canonical` after keys.forEach(...), for keys in the given order
RECURSIVE Collect(_, _)
Collect(data, keys) ==
    IF keys = <<>> THEN <<>>
    ELSE LET value == ValueAt(data, Head(keys))
             rest == Collect(data, Tail(keys))
         IN  IF Kept(value)
             THEN <<[k |-> Head(keys), v |-> Cleaned(value)]>> \o rest
             ELSE rest

RECURSIVE Text(_)
Text(chars) == IF chars = <<>> THEN "" ELSE Head(chars) \o Text(Tail(chars))

Quoted(chars) == "\"" \o Text(chars) \o "\""

\* JSON.stringify of a string or a number
JsonValue(value) ==
    IF value.t = "string" THEN Quoted(value.s) ELSE Text(NumToString(value.n))

RECURSIVE JsonMembers(_, _)
JsonMembers(obj, keys) ==
    IF keys = <<>> THEN ""
    ELSE Quoted(Head(keys)) \o ":" \o JsonValue(ValueAt(obj, Head(keys)))
            \o (IF Len(keys) > 1 THEN "," ELSE "")
            \o JsonMembers(obj, Tail(keys))

\* JSON.stringify(obj) for an object of strings and numbers
JsonStringify(obj) == "{" \o JsonMembers(obj, OwnKeys(obj)) \o "}"

\* the object `canonical` that is stringified
CanonicalObject(data) == Collect(data, SortKeys(OwnKeys(data)))

\* canonicalization that keeps the keys in the order Object.keys gives them
CanonicalizeUnsorted(data) == JsonStringify(Collect(data, OwnKeys(data)))

canonicalizeCertificateData(data) == JsonStringify(CanonicalObject(data))

\* field i and field i + 1 change places
Swapped(data, i) ==
    [j \in 1..Len(data) |->
        IF j = i THEN data[i + 1] ELSE IF j = i + 1 THEN data[i] ELSE data[j]]

\* field i removed
Without(data, i) == SubSeq(data, 1, i - 1) \o SubSeq(data, i + 1, Len(data))

\* the stand-in for SHA-256: a digest that names its input, so that two
\* digests are equal exactly when their inputs are
Sha256Hex(text) == <<"sha256", text>>

\* a digest taken without update(canonicalData)
FingerprintOfNothing(canonicalData) == Sha256Hex("")

\* crypto.createHash('sha256').update(canonicalData).digest('hex')
generateFingerprint(canonicalData) == Sha256Hex(canonicalData)

Canonicalized ==
    /\ cOutA' = canonicalizeCertificateData(cA')
    /\ cOutB' = canonicalizeCertificateData(cB')
    /\ fpA' = generateFingerprint(cOutA')
    /\ fpB' = generateFingerprint(cOutB')

\* A is a map of filled-in fields; B starts as A and is edited
CanonInit ==
    /\ cA \in FieldMaps(MaxFields, FilledValues)
    /\ cB = cA
    /\ cOutA = ""
    /\ cOutB = ""
    /\ fpA = <<>>
    /\ fpB = <<>>

\* B lists two neighbouring fields the other way round
Reorder(i) ==
    /\ i < Len(cB)
    /\ cB' = Swapped(cB, i)
    /\ cA' = cA
    /\ Canonicalized

\* B gets one more key, holding null, undefined or ''
AddEmptyKey(k, v) ==
    /\ k \notin KeysOf(cB)
    /\ v \in {VNull, VUndefined, VStr(<<>>)}
    /\ cB' = Append(cB, [k |-> k, v |-> v])
    /\ cA' = cA
    /\ Canonicalized

\* B loses a key that holds null, undefined or ''
DropEmptyKey(i) ==
    /\ cB[i].v \in {VNull, VUndefined, VStr(<<>>)}
    /\ cB' = Without(cB, i)
    /\ cA' = cA
    /\ Canonicalized

\* a string of B gets another string with the same trimmed text
Respace(i, v) ==
    /\ cB[i].v.t = "string"
    /\ v # cB[i].v
    /\ Trim(v.s) = Trim(cB[i].v.s)
    /\ cB' = [cB EXCEPT ![i].v = v]
    /\ cA' = cA
    /\ Canonicalized

\* B gets one more key, holding a string of spaces only
AddBlankKey(k, v) ==
    /\ k \notin KeysOf(cB)
    /\ v.s # <<>> /\ Trim(v.s) = <<>>
    /\ cB' = Append(cB, [k |-> k, v |-> v])
    /\ cA' = cA
    /\ Canonicalized

SrvIdle ==
    /\ employees = {}
    /\ nextRowId = 1
    /\ id_counters = StartupCounters({})
    /\ txn = NoTxn
    /\ reqs = EmptyBag
    /\ answers = {}
    /\ nOps = 0
    /\ allocLog = <<>>
    /\ everPersisted = {}
    /\ discarded = {}
    /\ kinds = {}
    /\ overlapped = FALSE

InitCanon == SrvIdle /\ DocsEmpty /\ SignIdle /\ CanonInit /\ Unconfigured

NextCanon ==
    \/ \E i \in 1..Len(cB) : Reorder(i) /\ UNCHANGED notCanon
    \/ \E k \in FieldKeys, v \in FieldValues : AddEmptyKey(k, v) /\ UNCHANGED notCanon
    \/ \E i \in 1..Len(cB) : DropEmptyKey(i) /\ UNCHANGED notCanon
    \/ \E i \in 1..Len(cB), v \in StringValues : Respace(i, v) /\ UNCHANGED notCanon
    \/ \E k \in FieldKeys, v \in StringValues : AddBlankKey(k, v) /\ UNCHANGED notCanon

SpecCanon == InitCanon /\ [][NextCanon]_vars

(* Part 2: properties of the canonical form *)

\* the fields whose value is not null, undefined or ''
NonEmptyFields(data) ==
    {<<data[i].k, data[i].v>> : i \in {j \in 1..Len(data) : Kept(data[j].v)}}

\* the (key, trimmed value) pairs whose trimmed value is not empty
TrimmedPairs(data) ==
    {<<data[i].k, Cleaned(data[i].v)>> :
        i \in {j \in 1..Len(data) : Kept(Cleaned(data[j].v))}}

\* C9: maps that differ only in the order of their keys, or in extra keys
\* holding null, undefined or '', have the same canonical string
C9_OrderAndEmptyKeysIgnored ==
    (cOutA # "" /\ NonEmptyFields(cA) = NonEmptyFields(cB)) => cOutA = cOutB

\* C9 witness: B has A's fields in another order and an extra empty key
C9_Witness ==
    /\ cOutA # ""
    /\ NonEmptyFields(cA) = NonEmptyFields(cB)
    /\ Cardinality(NonEmptyFields(cA)) >= 2
    /\ Len(cB) > Len(cA)
    /\ SubSeq(cB, 1, Len(cA)) # cA
    /\ cOutA = cOutB

\* C10: maps with the same (key, trimmed value) pairs of non-empty trimmed
\* value have the same canonical string
C10_TrimmedPairsDecide ==
    (cOutA # "" /\ TrimmedPairs(cA) = TrimmedPairs(cB)) => cOutA = cOutB

-----------------------------------------------------------------------------
(* Part 2b: the fingerprint of a record and of the record with one field changed *)

\* the values of a record and of its changed fields
MutateValues == FieldValues \cup {VStr(<<"a">>)}

\* A is any field map
MutateInit ==
    /\ cA \in FieldMaps(MaxFields, MutateValues)
    /\ cB = cA
    /\ cOutA = ""
    /\ cOutB = ""
    /\ fpA = <<>>
    /\ fpB = <<>>

\* B is A with the value of one non-empty field changed to another value
ChangeField(i, v) ==
    /\ cB = cA
    /\ Kept(cA[i].v)
    /\ v # cA[i].v
    /\ cB' = [cA EXCEPT ![i].v = v]
    /\ cA' = cA
    /\ Canonicalized

InitMutate == SrvIdle /\ DocsEmpty /\ SignIdle /\ MutateInit /\ Unconfigured

NextMutate ==
    \E i \in 1..Len(cA), v \in MutateValues : ChangeField(i, v) /\ UNCHANGED notCanon

SpecMutate == InitMutate /\ [][NextMutate]_vars

\* the fields of A and B whose values differ
ChangedFields == {i \in 1..Len(cA) : cA[i].v # cB[i].v}

\* C11 as stated: changing the value of one non-empty field to a different
\* value changes the fingerprint of the canonical form
C11_AnyChangeChangesFingerprint ==
    (fpA # <<>> /\ ChangedFields # {}) => fpA # fpB

\* C11 as amended: changing the value of one non-empty field to a value that
\* is different after trimming changes the fingerprint of the canonical form
C11_TrimmedChangeChangesFingerprint ==
    (fpA # <<>> /\ \E i \in ChangedFields : Cleaned(cA[i].v) # Cleaned(cB[i].v))
        => fpA # fpB

\* C11 witness: a string field got another text and the fingerprints differ
C11_Witness ==
    /\ fpA # <<>>
    /\ \E i \in ChangedFields :
          /\ cA[i].v.t = "string" /\ cB[i].v.t = "string"
          /\ Trim(cA[i].v.s) # <<>> /\ Trim(cB[i].v.s) # <<>>
          /\ Trim(cA[i].v.s) # Trim(cB[i].v.s)
    /\ fpA # fpB

-----------------------------------------------------------------------------
(* Part 2c: signFingerprint and verifySignature *)

\* generateKeyPair(): pair k is the private key k and the public key k
KeyPairs == 1..MaxKeys

\* bytes that are no base64 RSA signature
Garbage == [over |-> <<>>, by |-> NotAKey]

\* sign.update(fingerprint); sign.sign(privateKey, 'base64'): an RSA signature
\* is named by what was signed and by the key pair that signed it
signFingerprint(fingerprint, privateKey) ==
    [over |-> fingerprint, by |-> privateKey]

\* verify.update(fingerprint); verify.verify(publicKey, signature, 'base64'):
\* throws on a key it cannot read, is false on bytes that are no signature
CryptoVerify(fingerprint, signature, publicKey) ==
    IF publicKey \notin KeyPairs THEN "threw"
    ELSE IF signature.by = publicKey /\ signature.over = fingerprint
         THEN "true" ELSE "false"

\* verifySignature without its try / catch
VerifyUncaught(fingerprint, signature, publicKey) ==
    CryptoVerify(fingerprint, signature, publicKey)

\* try { ... return verify.verify(...) } catch (error) { return false }
verifySignature(fingerprint, signature, publicKey) ==
    IF CryptoVerify(fingerprint, signature, publicKey) = "threw"
    THEN "false"
    ELSE CryptoVerify(fingerprint, signature, publicKey)

\* the fingerprints that get signed
Fingerprints ==
    {generateFingerprint(canonicalizeCertificateData(data)) :
        data \in FieldMaps(1, {VStr(<<"x">>), VNum(0)})}

SignInit ==
    /\ sFp \in Fingerprints
    /\ sPriv \in KeyPairs
    /\ sPub = NoKey
    /\ sSig = NoSignature
    /\ sOut = "none"

\* the issuer signs the fingerprint
Sign ==
    /\ sSig = NoSignature
    /\ sSig' = signFingerprint(sFp, sPriv)
    /\ UNCHANGED <<sFp, sPriv, sPub, sOut>>

\* the signature is replaced by bytes that are none, before it is verified
Garble ==
    /\ sSig # NoSignature /\ sSig # Garbage
    /\ sOut = "none"
    /\ sSig' = Garbage
    /\ UNCHANGED <<sFp, sPriv, sPub, sOut>>

\* a verifier checks the signature with the key it holds
Verify(publicKey) ==
    /\ sSig # NoSignature
    /\ sPub' = publicKey
    /\ sOut' = verifySignature(sFp, sSig, publicKey)
    /\ UNCHANGED <<sFp, sPriv, sSig>>

InitSign == SrvIdle /\ DocsEmpty /\ CanonIdle /\ SignInit /\ Unconfigured

NextSign ==
    \/ Sign /\ UNCHANGED <<srvVars, docVars, canonVars, cfgVars>>
    \/ Garble /\ UNCHANGED <<srvVars, docVars, canonVars, cfgVars>>
    \/ \E k \in KeyPairs \cup {NotAKey} :
            Verify(k) /\ UNCHANGED <<srvVars, docVars, canonVars, cfgVars>>

SpecSign == InitSign /\ [][NextSign]_vars

\* C12: a signature verifies with the public key of the pair that made it and
\* with no other; verifySignature answers false, and does not throw, on a key
\* or a signature that is malformed
C12_SignThenVerify ==
    sOut # "none" =>
        /\ sOut \in {"true", "false"}
        /\ (sSig = signFingerprint(sFp, sPriv) /\ sPub = sPriv) => sOut = "true"
        /\ (sSig = signFingerprint(sFp, sPriv) /\ sPub \in KeyPairs \ {sPriv})
                => sOut = "false"
        /\ (sPub = NotAKey \/ sSig = Garbage) => sOut = "false"

\* C12 witness: a good signature was checked with something that is no key
C12_Witness ==
    /\ sSig = signFingerprint(sFp, sPriv)
    /\ sPub = NotAKey
    /\ sOut = "false"

-----------------------------------------------------------------------------
(* Part 3: certificates *)

\* rows of one create-bulk request
MaxRows == 2

person_uuid == <<"p", "e", "r", "s", "o", "n", "_", "u", "u", "i", "d">>
name == <<"n", "a", "m", "e">>
issue_date == <<"i", "s", "s", "u", "e", "_", "d", "a", "t", "e">>
schema_version == <<"s", "c", "h", "e", "m", "a", "_", "v", "e", "r", "s", "i", "o", "n">>
certificate_type == <<"c", "e", "r", "t", "i", "f", "i", "c", "a", "t", "e", "_", "t", "y", "p", "e">>

\* new Date().toISOString().split('T')[0] on the day the server runs
Today == <<"2", "0", "2", "5", "-", "0", "6", "-", "0", "1">>
\* a date a client may submit
OtherDay == <<"1", "9", "9", "9", "-", "0", "1", "-", "0", "1">>

\* data[key]: undefined for a key the object does not have
Get(data, key) == IF key \in KeysOf(data) THEN ValueAt(data, key) ELSE VUndefined

\* data[key] = value: a new key goes last, a known key keeps its place
SetField(data, key, value) ==
    IF key \in KeysOf(data)
    THEN LET i == CHOOSE j \in 1..Len(data) : data[j].k = key
         IN  SubSeq(data, 1, i - 1) \o <<[k |-> key, v |-> value]>>
                \o SubSeq(data, i + 1, Len(data))
    ELSE Append(data, [k |-> key, v |-> value])

\* is the value truthy
Truthy(value) ==
    \/ value.t = "string" /\ value.s # <<>>
    \/ value.t = "number" /\ value.n # 0

\* value || fallback
OrElse(value, fallback) == IF Truthy(value) THEN value ELSE fallback

\* { issue_date: issueDate, schema_version: 1, ...certificateData }
SubmittedWins(certificateData, issueDate) ==
    LET withDate == IF issue_date \in KeysOf(certificateData) THEN certificateData
                    ELSE SetField(certificateData, issue_date, VStr(issueDate))
    IN  IF schema_version \in KeysOf(withDate) THEN withDate
        ELSE SetField(withDate, schema_version, VNum(1))

\* { ...certificateData, issue_date: issueDate, schema_version: 1 }
WithIssueFields(certificateData, issueDate) ==
    SetField(SetField(certificateData, issue_date, VStr(issueDate)),
             schema_version, VNum(1))

\* generateCertificateId(type): the random draw r gives numericPart and alphaPart
generateCertificateId(type, r) ==
    <<"C", "E", "R", "T", "-">>
        \o (IF type = VStr(<<"e", "m", "p", "l", "o", "y", "e", "e">>)
            THEN <<"E", "M", "P">> ELSE <<"I", "N", "T">>)
        \o <<"-">> \o Year \o <<"-">> \o NumToString(10000000 + r)
        \o <<"-">> \o <<"A", "B", "0">> \o NumToString(r)

\* the draws of crypto.randomInt / crypto.randomBytes
CertDraws == {1, 2}

NoBatch == 0

\* the row INSERT INTO certificates (...) VALUES (...) adds; `record` is history:
\* the object whose JSON is certificate_data
CertificateRow(id, uuid, code, certificateData, issueDate, batchId) ==
    LET record == CanonicalObject(WithIssueFields(certificateData, issueDate))
        canonicalData == JsonStringify(record)
        fingerprint == generateFingerprint(canonicalData)
    IN
    [id |-> id,
     certificate_uuid |-> uuid,
     certificate_code |-> code,
     person_uuid |-> IF batchId = NoBatch THEN Get(certificateData, person_uuid)
                     ELSE OrElse(Get(certificateData, person_uuid), VStr(uuid)),
     name |-> Get(certificateData, name),
     certificate_type |-> OrElse(Get(certificateData, certificate_type),
                                 VStr(<<"I", "n", "t", "e", "r", "n", "s", "h", "i", "p">>)),
     certificate_data |-> canonicalData,
     record |-> record,
     fingerprint |-> fingerprint,
     signature |-> Sha256Hex(fingerprint),
     status |-> "active",
     batch_id |-> batchId,
     schema_version |-> 1,
     issue_date |-> issueDate,
     revoked_at |-> 0,
     revocation_reason |-> ""]

\* certificate_uuid TEXT UNIQUE, certificate_code TEXT UNIQUE
CertUniqueViolation(rows, row) ==
    \E c \in rows : \/ c.certificate_code = row.certificate_code
                    \/ c.certificate_uuid = row.certificate_uuid

\* person_uuid, name TEXT NOT NULL: undefined is bound as NULL
CertNullViolation(row) ==
    \/ row.name \in {VNull, VUndefined}
    \/ row.person_uuid \in {VNull, VUndefined}

\* one directive of a create-bulk schema
Directive(field, source, from) ==
    [field |-> field, source |-> source,
     excel_column |-> IF source = "excel" THEN from ELSE <<>>,
     value |-> IF source = "manual" THEN from ELSE VUndefined,
     rule |-> IF source = "auto" THEN from ELSE ""]

\* a loop that applies no directive
SchemaIgnored(certificateData, row, schema, issueDate) == certificateData

\* for (const field of schema) { ... }
RECURSIVE ApplySchema(_, _, _, _)
ApplySchema(certificateData, row, schema, issueDate) ==
    IF schema = <<>> THEN certificateData
    ELSE LET field == Head(schema)
             next ==
                IF field.source = "excel"
                THEN SetField(certificateData, field.field, Get(row, field.excel_column))
                ELSE IF field.source = "manual"
                THEN SetField(certificateData, field.field, field.value)
                ELSE IF field.source = "auto" /\ field.rule \in {"today", "current_date"}
                THEN SetField(certificateData, field.field, VStr(issueDate))
                ELSE certificateData
         IN  ApplySchema(next, row, Tail(schema), issueDate)

\* the rows of an uploaded sheet, and the data of a create-single request
PlainRow == <<[k |-> name, v |-> VStr(<<"x">>)], [k |-> person_uuid, v |-> VStr(<<"p">>)]>>
DatedRow ==
    <<[k |-> person_uuid, v |-> VStr(<<"p">>)], [k |-> name, v |-> VStr(<<"x">>)],
      [k |-> issue_date, v |-> VStr(OtherDay)], [k |-> schema_version, v |-> VNum(7)]>>
NamelessRow == <<[k |-> <<"a">>, v |-> VStr(<<"x">>)]>>

\* req.body.certificateData of create-single
ExcelRows == {PlainRow, DatedRow, NamelessRow}

\* the rows of req.body.excelData of create-bulk
SheetRows == {PlainRow, NamelessRow}

\* req.body.schema: none, or one directive of each kind
Schemas ==
    { <<>>,
      <<Directive(name, "excel", <<"a">>),
        Directive(issue_date, "manual", VStr(OtherDay)),
        Directive(schema_version, "manual", VNum(7)),
        Directive(<<"9">>, "auto", "today")>> }

\* excelData: no row, or up to MaxRows rows
RECURSIVE Sheets(_)
Sheets(n) ==
    IF n = 0 THEN {<<>>}
    ELSE Sheets(n - 1) \cup
         {Append(p[1], p[2]) : p \in {x \in Sheets(n - 1) \X SheetRows : Len(x[1]) = n - 1}}

\* a response of the certificate and offer-letter handlers
Reply(kind, result, about) ==
    answers' = answers \cup {[kind |-> kind, result |-> result, about |-> about]}

\* what an INSERT INTO certificates does: "ok", or the constraint that fails
CertInsertResult(rows, row) ==
    IF CertNullViolation(row) THEN "null_error"
    ELSE IF CertUniqueViolation(rows, row) THEN "unique_error"
    ELSE "ok"

(* ---- POST /api/certificates/create-single ---- *)

\* nothing is read before the INSERT, so the handler is one step
CreateSingleCertificate(certificateData, r) ==
    /\ Accept("cert_single")
    /\ IF ~Truthy(Get(certificateData, person_uuid)) \/ ~Truthy(Get(certificateData, name))
       THEN /\ Reply("cert_single", "invalid", nOps')
            /\ UNCHANGED <<certificates, docSeq>>
       ELSE LET row == CertificateRow(
                    docSeq.certificates + 1, <<"uuid", nOps', 1>>,
                    generateCertificateId(
                        OrElse(Get(certificateData, certificate_type),
                               VStr(<<"i", "n", "t", "e", "r", "n">>)), r),
                    certificateData, Today, NoBatch)
                res == CertInsertResult(certificates, row)
            IN  /\ Reply("cert_single", res, nOps')
                /\ IF res = "ok"
                   THEN /\ certificates' = certificates \cup {row}
                        /\ docSeq' = [docSeq EXCEPT !.certificates = @ + 1]
                   ELSE UNCHANGED <<certificates, docSeq>>
    /\ UNCHANGED <<employees, nextRowId, id_counters, txn, reqs, allocLog,
                   everPersisted, discarded, certificate_batches,
                   offer_letters_staging, offer_letters, offer_letter_batches>>

(* ---- POST /api/certificates/create-bulk ---- *)

\* the batch ids in use
CertBatchIds ==
    {b.batch_id : b \in certificate_batches}
        \cup {q.batch_id : q \in {x \in Active : x.kind = "cert_bulk"}}

\* `BATCH-${Date.now()}`: the clock has not moved since the last batch, or has
BatchIdsNow(used) == IF used = {} THEN {1} ELSE {SetMax(used), SetMax(used) + 1}

\* validation, then INSERT INTO certificate_batches (batch_id UNIQUE)
StartBulkCertificates(schema, excelData, batchId) ==
    /\ Accept("cert_bulk")
    /\ IF excelData = <<>>
       THEN /\ Reply("cert_bulk", "invalid", NoBatch)
            /\ UNCHANGED <<certificate_batches, reqs>>
       ELSE IF \E b \in certificate_batches : b.batch_id = batchId
       THEN /\ Reply("cert_bulk", "unique_error", NoBatch)
            /\ UNCHANGED <<certificate_batches, reqs>>
       ELSE /\ certificate_batches' = certificate_batches \cup
                    {[batch_id |-> batchId, certificate_count |-> Len(excelData)]}
            /\ reqs' = reqs (+) One([kind |-> "cert_bulk", pc |-> "row",
                                     rid |-> nOps', batch_id |-> batchId,
                                     schema |-> schema, excelData |-> excelData,
                                     results |-> 0])
            /\ answers' = answers
    /\ UNCHANGED <<employees, nextRowId, id_counters, txn, allocLog,
                   everPersisted, discarded, certificates, docSeq,
                   offer_letters_staging, offer_letters, offer_letter_batches>>

\* one turn of  for (const row of excelData): INSERT INTO certificates; an
\* error ends the request with a 500, the last row with the 200
BulkCertificateRow(q, r) ==
    /\ q.kind = "cert_bulk" /\ q.pc = "row"
    /\ LET excelRow == q.excelData[q.results + 1]
           certificateData == ApplySchema(excelRow, excelRow, q.schema, Today)
           row == CertificateRow(
                    docSeq.certificates + 1, <<"uuid", q.rid, q.results + 1>>,
                    generateCertificateId(
                        OrElse(Get(certificateData, certificate_type),
                               VStr(<<"i", "n", "t", "e", "r", "n">>)), r),
                    certificateData, Today, q.batch_id)
           res == CertInsertResult(certificates, row)
       IN  IF res # "ok"
           THEN /\ Reply("cert_bulk", res, q.batch_id)
                /\ reqs' = reqs (-) One(q)
                /\ UNCHANGED <<certificates, docSeq>>
           ELSE /\ certificates' = certificates \cup {row}
                /\ docSeq' = [docSeq EXCEPT !.certificates = @ + 1]
                /\ IF q.results + 1 = Len(q.excelData)
                   THEN Reply("cert_bulk", "ok", q.batch_id) /\ reqs' = reqs (-) One(q)
                   ELSE Step(q, [q EXCEPT !.results = @ + 1]) /\ answers' = answers
    /\ UNCHANGED <<employees, nextRowId, id_counters, txn, nOps, allocLog,
                   everPersisted, discarded, kinds, overlapped,
                   certificate_batches, offer_letters_staging, offer_letters,
                   offer_letter_batches>>

(* ---- POST /api/certificates/revoke/:id ---- *)

\* an UPDATE without its WHERE clause
RevokedEveryRow(rows, id, reason, now) ==
    {[c EXCEPT !.status = "revoked", !.revoked_at = now,
               !.revocation_reason = reason] : c \in rows}

\* UPDATE certificates SET status = "revoked", revoked_at = CURRENT_TIMESTAMP,
\*  revocation_reason = ? WHERE id = ?
RevokedRows(rows, id, reason, now) ==
    {IF c.id = id
     THEN [c EXCEPT !.status = "revoked", !.revoked_at = now,
                    !.revocation_reason = reason]
     ELSE c : c \in rows}

\* req.body.reason
Reasons == {"", "misuse"}

RevokeCertificate(id, reason) ==
    /\ Accept("revoke")
    /\ certificates' = RevokedRows(certificates, id,
            IF reason = "" THEN "No reason provided" ELSE reason, nOps')
    /\ Reply("revoke", IF \E c \in certificates : c.id = id THEN "ok" ELSE "not_found", id)
    /\ UNCHANGED <<employees, nextRowId, id_counters, txn, reqs, allocLog,
                   everPersisted, discarded, certificate_batches, docSeq,
                   offer_letters_staging, offer_letters, offer_letter_batches>>

(* ---- the certificate routes ---- *)

InitCert == SrvIdle /\ DocsEmpty /\ CanonIdle /\ SignIdle /\ Unconfigured

NextCert ==
    \/ \E d \in ExcelRows, r \in CertDraws :
            CreateSingleCertificate(d, r) /\ UNCHANGED pureVars
    \/ \E sc \in Schemas, x \in Sheets(MaxRows), b \in BatchIdsNow(CertBatchIds) :
            StartBulkCertificates(sc, x, b) /\ UNCHANGED pureVars
    \/ \E q \in Active, r \in CertDraws :
            BulkCertificateRow(q, r) /\ UNCHANGED pureVars
    \/ \E id \in 1..(docSeq.certificates + 1), reason \in Reasons :
            RevokeCertificate(id, reason) /\ UNCHANGED pureVars

SpecCert == InitCert /\ [][NextCert]_vars

\* certificate d is certificate c with, at most, another status, revoked_at
\* and revocation_reason
SameButRevocation(c, d) ==
    d = [c EXCEPT !.status = d.status, !.revoked_at = d.revoked_at,
                  !.revocation_reason = d.revocation_reason]

\* C13: in every step a stored certificate stays stored with its id,
\* certificate_code, certificate_uuid, certificate_data, fingerprint, signature
\* and every other column but status, revoked_at and revocation_reason as they
\* were, and a revocation leaves every certificate but the revoked one as it was
C13_RevokeChangesOnlyRevocation ==
    [][/\ \A c \in certificates :
            \E d \in certificates' : d.id = c.id /\ SameButRevocation(c, d)
       /\ Cardinality({c \in certificates : c \notin certificates'}) <= 1
      ]_vars

\* C13 witness: one certificate was revoked for a stated reason while another
\* one is stored, still active
C13_Witness ==
    \E c, d \in certificates :
        /\ c.status = "revoked" /\ c.revocation_reason = "misuse" /\ c.revoked_at > 0
        /\ d.id # c.id /\ d.status = "active" /\ d.revoked_at = 0

\* C14: the canonical record of every stored certificate is the stored
\* certificate_data, holds issue_date = the server's date and schema_version = 1,
\* and the issue_date column holds the same date
C14_IssueFieldsFromServer ==
    \A c \in certificates :
        /\ c.certificate_data = JsonStringify(c.record)
        /\ Get(c.record, issue_date) = VStr(Today)
        /\ Get(c.record, schema_version) = VNum(1)
        /\ c.issue_date = Today

\* C14 witness: a certificate of a batch whose schema set issue_date and
\* schema_version by hand (the same schema adds the key "9")
C14_Witness ==
    \E c \in certificates : c.batch_id # NoBatch /\ <<"9">> \in KeysOf(c.record)

\* C15: a create-single of a certificate or of an offer letter is never answered
\* with the uniqueness error of its first INSERT
C15_FirstCollisionNotSurfaced ==
    \A a \in answers :
        a.kind \in {"cert_single", "offer_single"} => a.result # "unique_error"

\* C18: once the request of a batch has ended, the certificate_count of its
\* batch row is the number of stored certificates that carry its batch_id
C18_BulkIsAUnit ==
    \A b \in certificate_batches :
        (\A q \in Active : q.kind = "cert_bulk" => q.batch_id # b.batch_id) =>
            b.certificate_count =
                Cardinality({c \in certificates : c.batch_id = b.batch_id})

-----------------------------------------------------------------------------
(* Part 4: offer letters and their staging store *)

excel_data == <<"e", "x", "c", "e", "l", "_", "d", "a", "t", "a">>
validity_days == <<"v", "a", "l", "i", "d", "i", "t", "y", "_", "d", "a", "y", "s">>
valid_until == <<"v", "a", "l", "i", "d", "_", "u", "n", "t", "i", "l">>
offer_type == <<"o", "f", "f", "e", "r", "_", "t", "y", "p", "e">>
generated_at == <<"g", "e", "n", "e", "r", "a", "t", "e", "d", "_", "a", "t">>

\* the rows xlsx.utils.sheet_to_json may give
RowA == <<[k |-> name, v |-> VStr(<<"x">>)]>>
RowB == <<[k |-> name, v |-> VStr(<<"y">>)]>>
UploadRows == {RowA, RowB}

\* data: no row, or up to MaxRows rows
RECURSIVE UploadSheets(_)
UploadSheets(n) ==
    IF n = 0 THEN {<<>>}
    ELSE UploadSheets(n - 1) \cup
         {Append(p[1], p[2]) :
            p \in {x \in UploadSheets(n - 1) \X UploadRows : Len(x[1]) = n - 1}}

\* JSON.stringify of an array of objects
RECURSIVE JsonElements(_)
JsonElements(rows) ==
    IF rows = <<>> THEN ""
    ELSE JsonStringify(Head(rows)) \o (IF Len(rows) > 1 THEN "," ELSE "")
            \o JsonElements(Tail(rows))

JsonArray(rows) == "[" \o JsonElements(rows) \o "]"

\* the whole database, as BEGIN remembers it and ROLLBACK restores it
DocTables ==
    [certificates |-> certificates, certificate_batches |-> certificate_batches,
     offer_letters_staging |-> offer_letters_staging,
     offer_letters |-> offer_letters,
     offer_letter_batches |-> offer_letter_batches, docSeq |-> docSeq]

\* a ROLLBACK that restores nothing
NotRolledBack(current, snapshot) == current

\* ROLLBACK: the tables are again what they were at BEGIN
RolledBack(current, snapshot) == snapshot

\* a test that lets every sheet pass
AnySheetPasses(data) == FALSE

\* data.length === 0
EmptySheet(data) == Len(data) = 0

\* the clock values behind the staging ids and the offer batch ids in use
StagingIds ==
    {s.staging_id[1] : s \in offer_letters_staging}
        \cup {q.stagingId : q \in {x \in Active : x.kind = "upload"}}

OfferBatchIds ==
    {b.batch_id : b \in offer_letter_batches}
        \cup {q.batch_id : q \in {x \in Active : x.kind = "generate"}}

\* the draws of Date.now().toString().slice(-6) and Math.random()
OfferDraws == {1, 2}

\* `OL-${year}-${timestamp}${random.slice(0, 3)}`
generateOfferLetterNumber(r) ==
    <<"O", "L", "-", "2", "0">> \o Year \o <<"-">> \o Tail(NumToString(1000000000 + r))

\* offer_letter_number TEXT UNIQUE
OfferUniqueNotEnforced(rows, number) == FALSE

OfferUniqueViolation(rows, number) ==
    \E l \in rows : l.offer_letter_number = number

\* the row INSERT INTO offer_letters adds; `by` is history: the request
OfferLetterRow(id, number, offerData, batchId, rowNumber, rid) ==
    [id |-> id, offer_letter_number |-> number,
     offer_data |-> JsonStringify(offerData), batch_id |-> batchId,
     row_number |-> rowNumber, status |-> "active", by |-> rid]

(* ---- POST /api/offer-letters/upload-excel ---- *)

\* the handler up to db.run('DELETE FROM offer_letters_staging', callback)
StartUpload(data, stagingId) ==
    /\ Accept("upload")
    /\ IF EmptySheet(data)
       THEN /\ Reply("upload", "invalid", nOps')
            /\ UNCHANGED reqs
       ELSE /\ reqs' = reqs (+) One([kind |-> "upload", pc |-> "clear",
                                     rid |-> nOps', stagingId |-> stagingId,
                                     data |-> data,
                                     excelHash |-> Sha256Hex(JsonArray(data)),
                                     index |-> 0])
            /\ answers' = answers
    /\ UNCHANGED <<employees, nextRowId, id_counters, txn, allocLog,
                   everPersisted, discarded, docVars>>

\* the DELETE runs; its callback queues one INSERT per row and sends the 200
UploadClear(q) ==
    /\ q.kind = "upload" /\ q.pc = "clear"
    /\ offer_letters_staging' = {}
    /\ Reply("upload", "ok", q.rid)
    /\ Step(q, [q EXCEPT !.pc = "insert"])
    /\ UNCHANGED <<employees, nextRowId, id_counters, txn, nOps, allocLog,
                   everPersisted, discarded, kinds, overlapped, certificates,
                   certificate_batches, offer_letters, offer_letter_batches, docSeq>>

\* the row stmt.run(...) binds for data[index]; `by` is history: the request
StagingRow(q, index) ==
    [staging_id |-> <<q.stagingId, index>>,
     excel_data |-> JsonStringify(q.data[index + 1]),
     columns |-> q.data[index + 1],
     excel_hash |-> q.excelHash,
     row_number |-> index + 1,
     by |-> q.rid]

\* one queued stmt.run executes; it has no callback, so an error is dropped
UploadInsert(q) ==
    /\ q.kind = "upload" /\ q.pc = "insert"
    /\ LET row == StagingRow(q, q.index)
       IN  IF \E s \in offer_letters_staging : s.staging_id = row.staging_id
           THEN UNCHANGED offer_letters_staging
           ELSE offer_letters_staging' = offer_letters_staging \cup {row}
    /\ IF q.index + 1 = Len(q.data)
       THEN reqs' = reqs (-) One(q)
       ELSE Step(q, [q EXCEPT !.index = @ + 1])
    /\ UNCHANGED <<employees, nextRowId, id_counters, txn, answers, nOps, allocLog,
                   everPersisted, discarded, kinds, overlapped, certificates,
                   certificate_batches, offer_letters, offer_letter_batches, docSeq>>

(* ---- POST /api/offer-letters/generate ---- *)

\* SELECT * FROM offer_letters_staging, and the test for no staged data
StartGenerate(batchId) ==
    /\ Accept("generate")
    /\ IF offer_letters_staging = {}
       THEN /\ Reply("generate", "invalid", nOps')
            /\ UNCHANGED reqs
       ELSE /\ reqs' = reqs (+) One([kind |-> "generate", pc |-> "begin",
                                     rid |-> nOps', batch_id |-> batchId,
                                     stagingData |-> offer_letters_staging,
                                     todo |-> offer_letters_staging,
                                     atBegin |-> {}, error |-> ""])
            /\ answers' = answers
    /\ UNCHANGED <<employees, nextRowId, id_counters, txn, allocLog,
                   everPersisted, discarded, docVars>>

\* BEGIN IMMEDIATE TRANSACTION, outside the inner try: an error is answered
\* 500 without a ROLLBACK
GenBegin(q) ==
    /\ q.kind = "generate" /\ q.pc = "begin"
    /\ IF txn.open
       THEN /\ Reply("generate", "txn_error", q.rid)
            /\ reqs' = reqs (-) One(q)
            /\ txn' = txn
       ELSE /\ txn' = [open |-> TRUE, employees |-> employees,
                       nextRowId |-> nextRowId, id_counters |-> id_counters,
                       docs |-> DocTables]
            /\ Step(q, [q EXCEPT !.pc = "batch", !.atBegin = offer_letters_staging])
            /\ answers' = answers
    /\ UNCHANGED <<employees, nextRowId, id_counters, nOps, allocLog,
                   everPersisted, discarded, kinds, overlapped, docVars>>

\* INSERT INTO offer_letter_batches (batch_id UNIQUE); `by` and `stagingData`
\* are history: the request and the staged rows it read
GenBatch(q) ==
    /\ q.kind = "generate" /\ q.pc = "batch"
    /\ IF \E b \in offer_letter_batches : b.batch_id = q.batch_id
       THEN /\ Step(q, [q EXCEPT !.pc = "rollback", !.error = "unique_error"])
            /\ UNCHANGED offer_letter_batches
       ELSE /\ offer_letter_batches' = offer_letter_batches \cup
                    {[batch_id |-> q.batch_id,
                      offer_count |-> Cardinality(q.stagingData), by |-> q.rid,
                      stagingData |-> q.stagingData]}
            /\ Step(q, [q EXCEPT !.pc = "letter"])
    /\ UNCHANGED <<employees, nextRowId, id_counters, txn, answers, nOps, allocLog,
                   everPersisted, discarded, kinds, overlapped, certificates,
                   certificate_batches, offer_letters_staging, offer_letters, docSeq>>

\* { ...excelData, issue_date, validity_days, valid_until, offer_type, generated_at }
EnrichedData(excelData) ==
    SetField(SetField(SetField(SetField(SetField(excelData,
        issue_date, VStr(Today)),
        validity_days, VNum(15)),
        valid_until, VStr(<<"2", "0", "2", "5", "-", "0", "6", "-", "1", "6">>)),
        offer_type, VStr(<<"F", "u", "l", "l", "-", "t", "i", "m", "e">>)),
        generated_at, VStr(Today))

\* one turn of  for (const staged of stagingData): staged is the next row in
\* row_number order, r the draw of generateOfferLetterNumber
GenLetter(q, staged, r) ==
    /\ q.kind = "generate" /\ q.pc = "letter"
    /\ staged \in q.todo
    /\ \A s \in q.todo : staged.row_number <= s.row_number
    /\ LET number == generateOfferLetterNumber(r)
       IN  IF OfferUniqueViolation(offer_letters, number)
           THEN /\ Step(q, [q EXCEPT !.pc = "rollback", !.error = "unique_error"])
                /\ UNCHANGED <<offer_letters, docSeq>>
           ELSE /\ offer_letters' = offer_letters \cup
                        {OfferLetterRow(docSeq.offer_letters + 1, number,
                                        EnrichedData(staged.columns), q.batch_id,
                                        staged.row_number, q.rid)}
                /\ docSeq' = [docSeq EXCEPT !.offer_letters = @ + 1]
                /\ Step(q, [q EXCEPT !.todo = @ \ {staged},
                                     !.pc = IF q.todo = {staged} THEN "clear"
                                            ELSE "letter"])
    /\ UNCHANGED <<employees, nextRowId, id_counters, txn, answers, nOps, allocLog,
                   everPersisted, discarded, kinds, overlapped, certificates,
                   certificate_batches, offer_letters_staging, offer_letter_batches>>

\* DELETE FROM offer_letters_staging, inside the transaction
GenClear(q) ==
    /\ q.kind = "generate" /\ q.pc = "clear"
    /\ offer_letters_staging' = {}
    /\ Step(q, [q EXCEPT !.pc = "commit"])
    /\ UNCHANGED <<employees, nextRowId, id_counters, txn, answers, nOps, allocLog,
                   everPersisted, discarded, kinds, overlapped, certificates,
                   certificate_batches, offer_letters, offer_letter_batches, docSeq>>

\* COMMIT, then the 200
GenCommit(q) ==
    /\ q.kind = "generate" /\ q.pc = "commit"
    /\ txn' = NoTxn
    /\ Reply("generate", "ok", q.rid)
    /\ reqs' = reqs (-) One(q)
    /\ UNCHANGED <<employees, nextRowId, id_counters, nOps, allocLog,
                   everPersisted, discarded, kinds, overlapped, docVars>>

\* the inner catch: ROLLBACK, then the 500 of the outer catch
GenRollback(q) ==
    /\ q.kind = "generate" /\ q.pc = "rollback"
    /\ LET restored == RolledBack(DocTables, txn.docs)
       IN  /\ certificates' = restored.certificates
           /\ certificate_batches' = restored.certificate_batches
           /\ offer_letters_staging' = restored.offer_letters_staging
           /\ offer_letters' = restored.offer_letters
           /\ offer_letter_batches' = restored.offer_letter_batches
           /\ docSeq' = restored.docSeq
    /\ txn' = NoTxn
    /\ Reply("generate", q.error, q.rid)
    /\ reqs' = reqs (-) One(q)
    /\ UNCHANGED <<employees, nextRowId, id_counters, nOps, allocLog,
                   everPersisted, discarded, kinds, overlapped>>

(* ---- POST /api/offer-letters/create-single ---- *)

\* req.body with or without offerData
Bodies == {<<>>, <<RowA>>}

CreateSingleOffer(body, r) ==
    /\ Accept("offer_single")
    /\ IF body = <<>>
       THEN /\ Reply("offer_single", "invalid", nOps')
            /\ UNCHANGED <<offer_letters, docSeq>>
       ELSE LET number == generateOfferLetterNumber(r)
            IN  IF OfferUniqueViolation(offer_letters, number)
                THEN /\ Reply("offer_single", "unique_error", nOps')
                     /\ UNCHANGED <<offer_letters, docSeq>>
                ELSE /\ Reply("offer_single", "ok", nOps')
                     /\ offer_letters' = offer_letters \cup
                            {OfferLetterRow(docSeq.offer_letters + 1, number,
                                            body[1], NoBatch, 0, nOps')}
                     /\ docSeq' = [docSeq EXCEPT !.offer_letters = @ + 1]
    /\ UNCHANGED <<employees, nextRowId, id_counters, txn, reqs, allocLog,
                   everPersisted, discarded, certificates, certificate_batches,
                   offer_letters_staging, offer_letter_batches>>

(* ---- PUT and DELETE /api/offer-letters/:id ---- *)

\* req.body.status
Statuses == {"", "withdrawn"}

\* UPDATE offer_letters SET offer_data = ?, status = ? WHERE id = ?
UpdateOffer(id, body, status) ==
    /\ Accept("offer_update")
    /\ IF body = <<>>
       THEN /\ Reply("offer_update", "invalid", nOps')
            /\ UNCHANGED offer_letters
       ELSE /\ offer_letters' =
                {IF l.id = id
                 THEN [l EXCEPT !.offer_data = JsonStringify(body[1]),
                                !.status = IF status = "" THEN "active" ELSE status]
                 ELSE l : l \in offer_letters}
            /\ Reply("offer_update",
                     IF \E l \in offer_letters : l.id = id THEN "ok" ELSE "not_found",
                     nOps')
    /\ UNCHANGED <<employees, nextRowId, id_counters, txn, reqs, allocLog,
                   everPersisted, discarded, certificates, certificate_batches,
                   offer_letters_staging, offer_letter_batches, docSeq>>

\* DELETE FROM offer_letters WHERE id = ?
DeleteOffer(id) ==
    /\ Accept("offer_delete")
    /\ offer_letters' = {l \in offer_letters : l.id # id}
    /\ Reply("offer_delete",
             IF \E l \in offer_letters : l.id = id THEN "ok" ELSE "not_found", nOps')
    /\ UNCHANGED <<employees, nextRowId, id_counters, txn, reqs, allocLog,
                   everPersisted, discarded, certificates, certificate_batches,
                   offer_letters_staging, offer_letter_batches, docSeq>>

(* ---- the offer-letter routes ---- *)

\* the staged rows some request may hold
StagedRows ==
    offer_letters_staging
        \cup UNION {q.todo : q \in {x \in Active : x.kind = "generate"}}

InitOffer == SrvIdle /\ DocsEmpty /\ CanonIdle /\ SignIdle /\ Unconfigured

NextOffer ==
    \/ \E data \in UploadSheets(MaxRows), id \in BatchIdsNow(StagingIds) :
            StartUpload(data, id) /\ UNCHANGED pureVars
    \/ \E q \in Active : UploadClear(q) /\ UNCHANGED pureVars
    \/ \E q \in Active : UploadInsert(q) /\ UNCHANGED pureVars
    \/ \E b \in BatchIdsNow(OfferBatchIds) : StartGenerate(b) /\ UNCHANGED pureVars
    \/ \E q \in Active : GenBegin(q) /\ UNCHANGED pureVars
    \/ \E q \in Active : GenBatch(q) /\ UNCHANGED pureVars
    \/ \E q \in Active, s \in StagedRows, r \in OfferDraws :
            GenLetter(q, s, r) /\ UNCHANGED pureVars
    \/ \E q \in Active : GenClear(q) /\ UNCHANGED pureVars
    \/ \E q \in Active : GenCommit(q) /\ UNCHANGED pureVars
    \/ \E q \in Active : GenRollback(q) /\ UNCHANGED pureVars
    \/ \E body \in Bodies, r \in OfferDraws :
            CreateSingleOffer(body, r) /\ UNCHANGED pureVars
    \/ \E id \in 1..(docSeq.offer_letters + 1), body \in Bodies, st \in Statuses :
            UpdateOffer(id, body, st) /\ UNCHANGED pureVars
    \/ \E id \in 1..(docSeq.offer_letters + 1) :
            DeleteOffer(id) /\ UNCHANGED pureVars

SpecOffer == InitOffer /\ [][NextOffer]_vars

-----------------------------------------------------------------------------
(* Part 4: properties of the offer-letter routes *)

\* request q takes the step and ends with it
Ends(q) == Taken(q) /\ BagCardinality(reqs') < BagCardinality(reqs)

\* C16: no two stored offer letters have the same offer_letter_number, and in
\* every step an offer letter that stays stored keeps its offer_letter_number
C16_OfferNumbersUniqueAndFixed ==
    /\ [](\A l1, l2 \in offer_letters :
            l1.offer_letter_number = l2.offer_letter_number => l1 = l2)
    /\ [][\A l \in offer_letters, m \in offer_letters' :
            m.id = l.id => m.offer_letter_number = l.offer_letter_number]_vars

\* C16 witness: an INSERT of a stored number was refused, and a stored offer
\* letter has been updated
C16_Witness ==
    /\ \E a \in answers : a.result = "unique_error"
    /\ \E l \in offer_letters : l.status = "withdrawn"

\* what the tables hold of generate request q
BatchRowsOf(q, batches) == {b \in batches : b.by = q.rid}
LettersOf(q, letters) == {l \in letters : l.by = q.rid}

\* C17: where no offer letter is deleted, the step that completes a generate
\* request leaves either its batch row, one offer letter of its batch for each
\* row it read and none of those rows staged (success), or no batch row and
\* no offer letter of the request and every row it read that was staged when
\* its transaction began (when it was refused, for a refused BEGIN) staged
C17_GenerateAllOrNothing ==
    [][\A q \in Active :
        (q.kind = "generate" /\ Ends(q) /\ "offer_delete" \notin kinds) =>
            IF q.pc = "commit"
            THEN /\ \E b \in BatchRowsOf(q, offer_letter_batches') :
                        /\ b.batch_id = q.batch_id
                        /\ b.offer_count = Cardinality(q.stagingData)
                 /\ Cardinality(LettersOf(q, offer_letters')) =
                        Cardinality(q.stagingData)
                 /\ \A l \in LettersOf(q, offer_letters') : l.batch_id = q.batch_id
                 /\ q.stagingData \cap offer_letters_staging' = {}
            ELSE /\ BatchRowsOf(q, offer_letter_batches') = {}
                 /\ LettersOf(q, offer_letters') = {}
                 /\ IF q.pc = "rollback"
                    THEN q.stagingData \cap q.atBegin \subseteq offer_letters_staging'
                    ELSE q.stagingData \cap offer_letters_staging
                            \subseteq offer_letters_staging'
      ]_vars

\* C17 witness: one generate request was rolled back on a duplicate number or
\* batch id after it had inserted, and one has committed its batch
C17_Witness ==
    /\ \E a \in answers : a.kind = "generate" /\ a.result = "unique_error"
    /\ \E a \in answers : a.kind = "generate" /\ a.result = "ok"
    /\ offer_letter_batches # {}
    /\ offer_letters_staging = {}

\* the columns of a staged row
Columns(s) ==
    [staging_id |-> s.staging_id, excel_data |-> s.excel_data,
     excel_hash |-> s.excel_hash, row_number |-> s.row_number]

C20_EmptyUploadRejected ==
    /\ [](\A q \in Active : q.kind = "upload" => q.data # <<>>)
    /\ [][\A a \in answers' \ answers :
            (a.kind = "upload" /\ a.result = "invalid") =>
                UNCHANGED <<docVars, employees, id_counters, reqs>>]_vars

\* C20 witness: an upload of zero rows was answered 400 while the rows of an
\* earlier upload are staged
C20_Witness ==
    \E a \in answers :
        /\ a.kind = "upload" /\ a.result = "invalid"
        /\ \E s \in offer_letters_staging : s.by < a.about

\* C21: a step removes a staged row only as the DELETE of an upload, or as the
\* DELETE of a generate request that read that row
C21_StagedRowsLeaveByGenerationOrUpload ==
    [][\A s \in offer_letters_staging \ offer_letters_staging' :
        \E q \in Active :
            /\ Taken(q) /\ q.pc = "clear"
            /\ q.kind = "generate" => s \in q.stagingData
      ]_vars

\* C27: once no transaction is open, no staged row has been read for two
\* stored batches, so that each staged row has given at most one offer letter
C27_StagedRowGeneratedOnce ==
    ~txn.open =>
        \A b1, b2 \in offer_letter_batches :
            b1 # b2 => b1.stagingData \cap b2.stagingData = {}

\* C28: the ROLLBACK of a generate request leaves stored every offer letter
\* whose creation another request was answered 200 for
C28_AcknowledgedWritesSurviveRollback ==
    [][\A q \in Active :
        (q.kind = "generate" /\ q.pc = "rollback" /\ Taken(q)) =>
            \A l \in offer_letters :
                [kind |-> "offer_single", result |-> "ok", about |-> l.by] \in answers
                    => l \in offer_letters'
      ]_vars

\* C29: the step of an update that supplies no status never turns the status
\* of a stored offer letter from 'withdrawn' to 'active' (no update of the
\* model supplies the status 'active')
C29_DataOnlyUpdateKeepsStatus ==
    [][\A a \in answers' \ answers :
        a.kind = "offer_update" =>
            \A l \in offer_letters, m \in offer_letters' :
                (m.id = l.id /\ l.status = "withdrawn") => m.status = "withdrawn"
      ]_vars

-----------------------------------------------------------------------------
(* Part 3: more properties of the certificate routes *)

\* C25: every stored certificate has fingerprint = SHA-256(certificate_data)
\* and signature = SHA-256(fingerprint)
C25_FingerprintAndSignatureOfStoredData ==
    \A c \in certificates :
        /\ c.fingerprint = Sha256Hex(c.certificate_data)
        /\ c.signature = Sha256Hex(c.fingerprint)

\* C25 witness: certificates of a single and of a bulk creation are stored,
\* one of them revoked
C25_Witness ==
    /\ \E c \in certificates : c.batch_id = NoBatch
    /\ \E c \in certificates : c.batch_id # NoBatch
    /\ \E c \in certificates : c.status = "revoked"

(* ---- GET /api/certificates/verify/:identifier ---- *)

\* a lookup without  AND status = "active"
FoundWhateverStatus(rows, identifier) ==
    IF LikePrefix(identifier, <<"C", "E", "R", "T", "-">>)
    THEN {c \in rows : c.certificate_code = identifier}
    ELSE {c \in rows : c.person_uuid = VStr(identifier)}

\* SELECT * FROM certificates WHERE certificate_code = ? AND status = "active",
\* or WHERE person_uuid = ? AND status = "active"
FoundCertificates(rows, identifier) ==
    IF LikePrefix(identifier, <<"C", "E", "R", "T", "-">>)
    THEN {c \in rows : c.certificate_code = identifier /\ c.status = "active"}
    ELSE {c \in rows : c.person_uuid = VStr(identifier) /\ c.status = "active"}

\* one element of publicData; certData is JSON.parse(cert.certificate_data),
\* which the handler spreads into the element
PublicCertificate(cert) ==
    [certificate_code |-> cert.certificate_code, name |-> cert.name,
     certificate_type |-> cert.certificate_type, issue_date |-> cert.issue_date,
     status |-> cert.status, verified |-> TRUE, certData |-> cert.record]

\* req.params.identifier: a stored code, or a person UUID
Identifiers == {c.certificate_code : c \in certificates} \cup {<<"p">>}

\* the handler is one SELECT; `at` is history: when the lookup ran
VerifyCertificate(identifier) ==
    /\ Accept("cert_verify")
    /\ LET rows == FoundCertificates(certificates, identifier)
       IN  Reply("cert_verify",
                 IF rows = {} THEN {} ELSE {PublicCertificate(c) : c \in rows},
                 [identifier |-> identifier, at |-> nOps'])
    /\ UNCHANGED <<employees, nextRowId, id_counters, txn, reqs, allocLog,
                   everPersisted, discarded, docVars>>

\* the certificate routes, with bulk creation of one row at a time
NextVerify ==
    \/ \E d \in ExcelRows, r \in CertDraws :
            CreateSingleCertificate(d, r) /\ UNCHANGED pureVars
    \/ \E x \in Sheets(1), b \in BatchIdsNow(CertBatchIds) :
            StartBulkCertificates(<<>>, x, b) /\ UNCHANGED pureVars
    \/ \E q \in Active, r \in CertDraws :
            BulkCertificateRow(q, r) /\ UNCHANGED pureVars
    \/ \E id \in 1..(docSeq.certificates + 1), reason \in Reasons :
            RevokeCertificate(id, reason) /\ UNCHANGED pureVars
    \/ \E identifier \in Identifiers :
            VerifyCertificate(identifier) /\ UNCHANGED pureVars

SpecVerify == InitCert /\ [][NextVerify]_vars

\* the lookups answered after certificate c was revoked
LookupsAfter(c) ==
    {a \in answers : a.kind = "cert_verify" /\ c.revoked_at > 0
                        /\ a.about.at > c.revoked_at}

-----------------------------------------------------------------------------
(* Part 5: bulk reconciliation, as a function of the schema and the rows *)

\* directives of one schema
MaxDirectives == 2

\* the rows {A: 1, B: 2} and {B: 2}
ReconRows ==
    { <<[k |-> <<"a">>, v |-> VNum(1)], [k |-> <<"b">>, v |-> VNum(2)]>>,
      <<[k |-> <<"b">>, v |-> VNum(2)]>> }

\* directives for the targets x and b: a column of the row, a column the row
\* may lack, a constant, the date, and a rule the loop does not know
ReconDirectives ==
    UNION {{Directive(f, "excel", <<"a">>), Directive(f, "excel", <<"b">>),
            Directive(f, "manual", VNum(9)), Directive(f, "auto", "today"),
            Directive(f, "auto", "uuid")} : f \in {<<"x">>, <<"b">>}}

RECURSIVE ReconSchemas(_)
ReconSchemas(n) ==
    IF n = 0 THEN {<<>>}
    ELSE ReconSchemas(n - 1) \cup
         {Append(p[1], p[2]) :
            p \in {x \in ReconSchemas(n - 1) \X ReconDirectives : Len(x[1]) = n - 1}}

RECURSIVE ReconSheets(_)
ReconSheets(n) ==
    IF n = 0 THEN {<<>>}
    ELSE ReconSheets(n - 1) \cup
         {Append(p[1], p[2]) :
            p \in {x \in ReconSheets(n - 1) \X ReconRows : Len(x[1]) = n - 1}}

\* the certificateData objects of  for (const row of excelData) { ... }
Reconciled(schema, excelData) ==
    [i \in 1..Len(excelData) |->
        ApplySchema(excelData[i], excelData[i], schema, Today)]

\* one call; answers holds the call and its payloads
Reconcile(schema, excelData) ==
    /\ Accept("reconcile")
    /\ answers' = {[kind |-> "reconcile", result |-> Reconciled(schema, excelData),
                    about |-> [schema |-> schema, excelData |-> excelData]]}
    /\ UNCHANGED <<employees, nextRowId, id_counters, txn, reqs, allocLog,
                   everPersisted, discarded, docVars>>

NextReconcile ==
    \E schema \in ReconSchemas(MaxDirectives), excelData \in ReconSheets(MaxRows) :
        Reconcile(schema, excelData) /\ UNCHANGED pureVars

SpecReconcile == InitCert /\ [][NextReconcile]_vars

\* the directives of a schema that assign to `key`
Assigning(schema, key) ==
    {j \in 1..Len(schema) :
        /\ schema[j].field = key
        /\ \/ schema[j].source \in {"excel", "manual"}
           \/ schema[j].source = "auto" /\ schema[j].rule = "today"}

\* what directive d gives for a row
DirectiveResult(d, row) ==
    IF d.source = "excel" THEN Get(row, d.excel_column)
    ELSE IF d.source = "manual" THEN d.value
    ELSE VStr(Today)

\* C22: a call gives one payload for each row; the keys of a payload are the
\* columns of its row and the targets of the directives, and each key holds
\* the result of the last directive that assigns to it or, where there is
\* none, the value of the row's column
C22_PayloadIsRowOverlaidBySchema ==
    \A a \in answers :
        a.kind = "reconcile" =>
            /\ Len(a.result) = Len(a.about.excelData)
            /\ \A i \in 1..Len(a.result) :
                LET row == a.about.excelData[i]
                    schema == a.about.schema
                    payload == a.result[i]
                IN  /\ KeysOf(payload) =
                            KeysOf(row) \cup
                                {schema[j].field : j \in
                                    UNION {Assigning(schema, k) :
                                            k \in {<<"x">>, <<"b">>}}}
                    /\ \A k \in KeysOf(payload) :
                        Get(payload, k) =
                            IF Assigning(schema, k) = {} THEN Get(row, k)
                            ELSE DirectiveResult(
                                    schema[SetMax(Assigning(schema, k))], row)

\* C22 witness: the row {A: 1, B: 2} with the schema A -> x has given the
\* payload with x = 1, B = 2 and A = 1
C22_Witness ==
    \E a \in answers :
        /\ a.kind = "reconcile"
        /\ a.about.schema = <<Directive(<<"x">>, "excel", <<"a">>)>>
        /\ Len(a.result) = 1
        /\ Get(a.result[1], <<"x">>) = VNum(1)
        /\ Get(a.result[1], <<"b">>) = VNum(2)
        /\ Get(a.result[1], <<"a">>) = VNum(1)

-----------------------------------------------------------------------------
(* Part 6: canonicalizing what was parsed from a canonical string *)

\* the characters of JSON.stringify(obj), for an object of strings and numbers
JsonValueChars(value) ==
    IF value.t = "string" THEN <<"\"">> \o value.s \o <<"\"">>
    ELSE NumToString(value.n)

RECURSIVE JsonMemberChars(_, _)
JsonMemberChars(obj, keys) ==
    IF keys = <<>> THEN <<>>
    ELSE <<"\"">> \o Head(keys) \o <<"\"", ":">>
            \o JsonValueChars(ValueAt(obj, Head(keys)))
            \o (IF Len(keys) > 1 THEN <<",">> ELSE <<>>)
            \o JsonMemberChars(obj, Tail(keys))

JsonChars(obj) == <<"{">> \o JsonMemberChars(obj, OwnKeys(obj)) \o <<"}">>

\* the characters up to the next quote, and the digits a text starts with
RECURSIVE UntilQuote(_)
UntilQuote(s) ==
    IF s = <<>> \/ Head(s) = "\"" THEN <<>> ELSE <<Head(s)>> \o UntilQuote(Tail(s))

RECURSIVE LeadingDigits(_)
LeadingDigits(s) ==
    IF s = <<>> \/ ~IsDigit(Head(s)) THEN <<>>
    ELSE <<Head(s)>> \o LeadingDigits(Tail(s))

Drop(s, n) == SubSeq(s, n + 1, Len(s))

\* the members of a JSON object text, from its first member on: each is
\* "key":"string" or "key":number
RECURSIVE ParseMembers(_)
ParseMembers(s) ==
    IF s = <<>> \/ Head(s) = "}" THEN <<>>
    ELSE IF Head(s) = "," THEN ParseMembers(Tail(s))
    ELSE LET key == UntilQuote(Tail(s))
             afterColon == Drop(s, Len(key) + 3)
             str == UntilQuote(Tail(afterColon))
             num == LeadingDigits(afterColon)
         IN  IF Head(afterColon) = "\""
             THEN <<[k |-> key, v |-> VStr(str)]>>
                    \o ParseMembers(Drop(afterColon, Len(str) + 2))
             ELSE <<[k |-> key, v |-> VNum(CastInteger(num))]>>
                    \o ParseMembers(Drop(afterColon, Len(num)))

\* JSON.parse of the text of an object of strings and numbers
JsonParse(chars) == ParseMembers(Tail(chars))

\* M is any field map; nothing is canonicalized yet
ReparseInit ==
    /\ cA \in FieldMaps(MaxFields, FieldValues)
    /\ cB = <<>>
    /\ cOutA = ""
    /\ cOutB = ""
    /\ fpA = <<>>
    /\ fpB = <<>>

\* A is canonicalized, B is what JSON.parse gives for that string, and B is
\* canonicalized
Reparse ==
    /\ cOutA = ""
    /\ cA' = cA
    /\ cB' = JsonParse(JsonChars(CanonicalObject(cA)))
    /\ Canonicalized

InitReparse == SrvIdle /\ DocsEmpty /\ SignIdle /\ ReparseInit /\ Unconfigured

NextReparse == Reparse /\ UNCHANGED notCanon

SpecReparse == InitReparse /\ [][NextReparse]_vars

\* C26: the string that was parsed is the canonical string of A, and
\* canonicalizing what was parsed from it gives the same string and so the
\* same fingerprint
C26_CanonicalizationIdempotent ==
    cOutA # "" =>
        /\ Text(JsonChars(CanonicalObject(cA))) = cOutA
        /\ cOutB = cOutA
        /\ fpB = fpA

-----------------------------------------------------------------------------
(* Part 7: the public verification responses *)

candidate_name == <<"c", "a", "n", "d", "i", "d", "a", "t", "e", "_", "n", "a", "m", "e">>
CandidateName == <<"C", "a", "n", "d", "i", "d", "a", "t", "e", " ", "N", "a", "m", "e">>
company_name == <<"c", "o", "m", "p", "a", "n", "y", "_", "n", "a", "m", "e">>
Company == <<"C", "o", "m", "p", "a", "n", "y">>
CompanyName == <<"C", "o", "m", "p", "a", "n", "y", " ", "N", "a", "m", "e">>
designation == <<"d", "e", "s", "i", "g", "n", "a", "t", "i", "o", "n">>
Designation == <<"D", "e", "s", "i", "g", "n", "a", "t", "i", "o", "n">>
validity_period == <<"v", "a", "l", "i", "d", "i", "t", "y", "_", "p", "e", "r", "i", "o", "d">>
ValidityPeriod == <<"V", "a", "l", "i", "d", "i", "t", "y", " ", "P", "e", "r", "i", "o", "d">>
ctc == <<"c", "t", "c">>
NotAvailable == <<"N", "/", "A">>

(* ---- GET /api/verify/:uuid ---- *)

\* rows of table employees with the columns the handler reads and columns it
\* must not show
EmployeeRecords ==
    {[id |-> IF u = <<"u">> THEN 1 ELSE 2, uuid |-> u,
      employee_id |-> IF u = <<"u">> THEN <<"E">> ELSE <<"F">>,
      name |-> n, designation |-> "clerk", department |-> "hr", type |-> "employee",
      photo |-> "p.png", created_at |-> 1, status |-> st,
      salary |-> sal, bank_account |-> "acc", aadhar_number |-> aad,
      pan_number |-> "pan", address |-> "street", email |-> "mail", phone |-> "tel",
      emergency_contact |-> "kin"] :
        u \in {<<"u">>, <<"v">>}, n \in {"n", "m"}, st \in {"active"},
        sal \in {"1", "2"}, aad \in {"x"}}

\* the employees tables of up to two rows: uuid and employee_id are UNIQUE
EmployeeTables ==
    {{}} \cup {{r} : r \in EmployeeRecords}
         \cup {{p[1], p[2]} :
                    p \in {x \in EmployeeRecords \X EmployeeRecords :
                                x[1].uuid # x[2].uuid}}

\* a response that shows the stored row
WholeRow(row) == row

\* const publicData = { name: row.name, ... }
EmployeePublicData(row) ==
    [name |-> row.name, employee_id |-> row.employee_id,
     designation |-> row.designation, department |-> row.department,
     type |-> row.type, photo |-> row.photo, created_at |-> row.created_at,
     status |-> row.status]

\* req.params.uuid
UuidParams == {<<"u">>, <<" ", "v">>, <<"F">>, <<"w">>, <<" ">>}

\* uuid.trim().substring(0, 100)
SanitizedUuid(uuid) ==
    LET trimmed == Trim(uuid)
    IN  SubSeq(trimmed, 1, IF Len(trimmed) < 100 THEN Len(trimmed) ELSE 100)

\* the handler is one SELECT; result is the body sent with status `code`, if
\* it is public data; about.found is history: the row that was found
VerifyEmployee(uuid) ==
    /\ Accept("emp_verify")
    /\ LET sanitizedUuid == SanitizedUuid(uuid)
           rows == {r \in employees :
                        r.uuid = sanitizedUuid \/ r.employee_id = sanitizedUuid}
       IN  IF Len(Trim(uuid)) = 0
           THEN Reply("emp_verify", {}, [identifier |-> uuid, code |-> 400, found |-> {}])
           ELSE IF rows = {}
           THEN Reply("emp_verify", {}, [identifier |-> uuid, code |-> 404, found |-> {}])
           ELSE \E row \in rows :
                    Reply("emp_verify", {EmployeePublicData(row)},
                          [identifier |-> uuid, code |-> 200, found |-> {row}])
    /\ UNCHANGED <<employees, nextRowId, id_counters, txn, reqs, allocLog,
                   everPersisted, discarded, docVars>>

(* ---- GET /api/offer-letters/verify/:offerNumber ---- *)

\* the objects whose JSON text offer_data holds
OfferDatas ==
    {<<[k |-> candidate_name, v |-> VStr(<<"c">>)]>>,
     <<[k |-> candidate_name, v |-> VStr(<<"c">>)], [k |-> ctc, v |-> VNum(5)]>>,
     <<[k |-> CandidateName, v |-> VStr(<<"c">>)], [k |-> Company, v |-> VStr(<<"k">>)],
       [k |-> Designation, v |-> VStr(<<"d">>)],
       [k |-> ValidityPeriod, v |-> VStr(<<"v">>)]>>,
     <<[k |-> name, v |-> VStr(<<"c">>)], [k |-> company_name, v |-> VStr(<<"k">>)],
       [k |-> designation, v |-> VStr(<<"d">>)],
       [k |-> validity_period, v |-> VStr(<<"v">>)],
       [k |-> issue_date, v |-> VStr(OtherDay)]>>,
     <<[k |-> candidate_name, v |-> VStr(<<>>)], [k |-> name, v |-> VStr(<<"e">>)],
       [k |-> CompanyName, v |-> VStr(<<"k">>)], [k |-> ctc, v |-> VNum(5)]>>,
     <<[k |-> candidate_name, v |-> VNum(0)], [k |-> CandidateName, v |-> VStr(<<"c">>)],
       [k |-> ctc, v |-> VNum(6)]>>}

\* rows of table offer_letters; offer_data is JSON text
OfferRecords ==
    {[id |-> 1, offer_letter_number |-> <<"O", "1">>, offer_data |-> JsonChars(d),
      batch_id |-> b, generated_timestamp |-> ts, generated_by |-> "admin",
      status |-> st] :
        d \in OfferDatas, b \in {"B1"}, ts \in {1, 2},
        st \in {"active", "withdrawn"}}

OfferTables == {{}} \cup {{r} : r \in OfferRecords}

\* a || b || c || 'N/A'
RECURSIVE FirstTruthy(_, _)
FirstTruthy(offerData, keys) ==
    IF keys = <<>> THEN VStr(NotAvailable)
    ELSE OrElse(Get(offerData, Head(keys)), FirstTruthy(offerData, Tail(keys)))

\* const offerData = JSON.parse(row.offer_data); const publicData = { ... }
OfferPublicData(row) ==
    LET offerData == JsonParse(row.offer_data)
    IN  [offer_letter_number |-> row.offer_letter_number,
         candidate_name |-> FirstTruthy(offerData, <<candidate_name, CandidateName, name>>),
         company_name |-> FirstTruthy(offerData, <<company_name, Company, CompanyName>>),
         designation |-> FirstTruthy(offerData, <<designation, Designation>>),
         validity_period |-> FirstTruthy(offerData, <<validity_period, ValidityPeriod>>),
         issue_date |-> OrElse(Get(offerData, issue_date), VNum(row.generated_timestamp)),
         status |-> row.status,
         verified |-> TRUE]

\* req.params.offerNumber
OfferNumberParams == {<<"O", "1">>, <<"O", "2">>}

\* WHERE offer_letter_number = ? AND status = "active"
VerifyOfferLetter(offerNumber) ==
    /\ Accept("offer_verify")
    /\ LET rows == {r \in offer_letters :
                        r.offer_letter_number = offerNumber /\ r.status = "active"}
       IN  IF rows = {}
           THEN Reply("offer_verify", {},
                      [identifier |-> offerNumber, code |-> 404, found |-> {}])
           ELSE \E row \in rows :
                    Reply("offer_verify", {OfferPublicData(row)},
                          [identifier |-> offerNumber, code |-> 200, found |-> {row}])
    /\ UNCHANGED <<employees, nextRowId, id_counters, txn, reqs, allocLog,
                   everPersisted, discarded, docVars>>

\* any stored employees and offer letter, nothing in flight
InitPublic ==
    /\ employees \in EmployeeTables
    /\ nextRowId = Cardinality(employees) + 1
    /\ id_counters = StartupCounters({})
    /\ txn = NoTxn
    /\ reqs = EmptyBag
    /\ answers = {}
    /\ nOps = 0
    /\ allocLog = <<>>
    /\ everPersisted = {}
    /\ discarded = {}
    /\ kinds = {}
    /\ overlapped = FALSE
    /\ certificates = {}
    /\ certificate_batches = {}
    /\ offer_letters_staging = {}
    /\ offer_letters \in OfferTables
    /\ offer_letter_batches = {}
    /\ docSeq = [certificates |-> 0, offer_letters |-> Cardinality(offer_letters)]
    /\ CanonIdle
    /\ SignIdle
    /\ Unconfigured

NextPublic ==
    \/ \E uuid \in UuidParams : VerifyEmployee(uuid) /\ UNCHANGED pureVars
    \/ \E offerNumber \in OfferNumberParams :
            VerifyOfferLetter(offerNumber) /\ UNCHANGED pureVars

SpecPublic == InitPublic /\ [][NextPublic]_vars

\* the columns of an employee row that verification may show
PublicEmployeeColumns ==
    {"name", "employee_id", "designation", "department", "type", "photo",
     "created_at", "status"}

\* the keys of offer_data that verification may read
PublicOfferKeys ==
    {candidate_name, CandidateName, name, company_name, Company, CompanyName,
     designation, Designation, validity_period, ValidityPeriod, issue_date}

\* two offer-letter rows agree on what verification may depend on
SameOfferPublic(r1, r2) ==
    /\ r1.offer_letter_number = r2.offer_letter_number
    /\ r1.status = r2.status
    /\ r1.generated_timestamp = r2.generated_timestamp
    /\ \A key \in PublicOfferKeys :
            Get(JsonParse(r1.offer_data), key) = Get(JsonParse(r2.offer_data), key)

\* C24: an employee verification response holds the eight public columns and
\* nothing else, and is the response any employee record with the same public
\* columns gets; an offer-letter verification response is the response any
\* offer-letter record gets that has the same offer number, status, generated
\* timestamp and candidate-name, company, designation, validity-period and
\* issue-date fields
C24_PublicResponsesHideTheRest ==
    \A a \in answers :
        /\ a.kind = "emp_verify" =>
                \A row \in a.about.found :
                    /\ \A shown \in a.result : DOMAIN shown = PublicEmployeeColumns
                    /\ \A r \in EmployeeRecords :
                            (\A f \in PublicEmployeeColumns : r[f] = row[f]) =>
                                a.result = {EmployeePublicData(r)}
        /\ a.kind = "offer_verify" =>
                \A row \in a.about.found :
                    \A r \in OfferRecords :
                        SameOfferPublic(r, row) => a.result = {OfferPublicData(r)}

\* C24 witness: an employee was verified, and so was an offer letter whose
\* offer data names the candidate under a fallback key and holds a pay figure
C24_Witness ==
    /\ \E a \in answers : a.kind = "emp_verify" /\ a.about.found # {}
    /\ \E a \in answers :
            /\ a.kind = "offer_verify"
            /\ \E row \in a.about.found : ctc \in KeysOf(JsonParse(row.offer_data))
            /\ \E shown \in a.result : shown.candidate_name = VStr(<<"e">>)

-----------------------------------------------------------------------------
(* Part 8: the authentication middleware of the authenticated server *)

ApiVerify == <<"/", "a", "p", "i", "/", "v", "e", "r", "i", "f", "y">>
ApiCertificatesVerify ==
    <<"/", "a", "p", "i", "/", "c", "e", "r", "t", "i", "f", "i", "c", "a", "t",
      "e", "s", "/", "v", "e", "r", "i", "f", "y">>
ApiOfferLettersVerify ==
    <<"/", "a", "p", "i", "/", "o", "f", "f", "e", "r", "-", "l", "e", "t", "t",
      "e", "r", "s", "/", "v", "e", "r", "i", "f", "y">>
ApiHealth == <<"/", "a", "p", "i", "/", "h", "e", "a", "l", "t", "h">>
ApiAuthLogin ==
    <<"/", "a", "p", "i", "/", "a", "u", "t", "h", "/", "l", "o", "g", "i", "n">>
Uploads == <<"/", "u", "p", "l", "o", "a", "d", "s">>
ApiEmployees == <<"/", "a", "p", "i", "/", "e", "m", "p", "l", "o", "y", "e", "e", "s">>
ApiOfferLetters ==
    <<"/", "a", "p", "i", "/", "o", "f", "f", "e", "r", "-", "l", "e", "t", "t",
      "e", "r", "s">>
BearerPrefix == <<"B", "e", "a", "r", "e", "r", " ">>

\* process.env.JWT_SECRET: not set, or set
Secrets == {<<>>, <<"k">>}

\* header.startsWith(prefix), and what a pattern /^prefix/ tests
StartsWith(s, prefix) == Len(s) >= Len(prefix) /\ SubSeq(s, 1, Len(prefix)) = prefix

\* the rules of PUBLIC_ROUTE_RULES; exact is the pattern's closing $
PUBLIC_ROUTE_RULES ==
    <<[method |-> "ALL", pattern |-> ApiVerify, exact |-> FALSE],
      [method |-> "ALL", pattern |-> ApiCertificatesVerify, exact |-> FALSE],
      [method |-> "ALL", pattern |-> ApiOfferLettersVerify, exact |-> FALSE],
      [method |-> "GET", pattern |-> ApiHealth, exact |-> FALSE],
      [method |-> "POST", pattern |-> ApiAuthLogin, exact |-> TRUE]>>

routeMatches(rule, req) ==
    /\ req.path # <<>>
    /\ rule.method = "ALL" \/ rule.method = req.method
    /\ IF rule.exact THEN req.path = rule.pattern
       ELSE StartsWith(req.path, rule.pattern)

\* a server on which only preflight requests are public
OnlyPreflightIsPublic(req) == req.method = "OPTIONS"

isPublicRoute(req) ==
    \/ req.method = "OPTIONS"
    \/ req.path # <<>> /\ StartsWith(req.path, Uploads)
    \/ \E i \in 1..Len(PUBLIC_ROUTE_RULES) : routeMatches(PUBLIC_ROUTE_RULES[i], req)

\* null is the empty text here: both are falsy, and that is all the caller
\* looks at
extractTokenFromRequest(req) ==
    IF StartsWith(req.authorization, BearerPrefix)
    THEN SubSeq(req.authorization, 8, Len(req.authorization))
    ELSE <<>>

\* jwt.sign(payload, secret, { expiresIn }): the text carries who signed it and
\* whether it is still within its expiry
JwtSign(secret, fresh) == secret \o <<".">> \o (IF fresh THEN <<"v">> ELSE <<"x">>)

\* jwt.verify(token, secret) does not throw
JwtVerifies(token, secret) == token = JwtSign(secret, TRUE)

\* "next", or the status the middleware answers with
authenticateRequest(req) ==
    IF isPublicRoute(req) THEN "next"
    ELSE LET token == extractTokenFromRequest(req)
         IN  IF token = <<>> THEN "401"
             ELSE IF JWT_SECRET = <<>> THEN "500"
             ELSE IF JwtVerifies(token, JWT_SECRET) THEN "next"
             ELSE "401"

\* routes of the server, in the order they are mounted after the middleware:
\* param says that the path ends in one more segment
Routes ==
    <<[method |-> "GET", base |-> ApiEmployees, param |-> TRUE, handler |-> "getEmployee"],
      [method |-> "DELETE", base |-> ApiEmployees, param |-> TRUE,
       handler |-> "deleteEmployee"],
      [method |-> "GET", base |-> ApiVerify, param |-> TRUE, handler |-> "verify"],
      [method |-> "GET", base |-> ApiCertificatesVerify, param |-> TRUE,
       handler |-> "verifyCertificate"],
      [method |-> "GET", base |-> ApiOfferLettersVerify, param |-> TRUE,
       handler |-> "verifyOfferLetter"],
      [method |-> "GET", base |-> ApiHealth, param |-> FALSE, handler |-> "health"],
      [method |-> "DELETE", base |-> ApiOfferLetters, param |-> TRUE,
       handler |-> "deleteOfferLetter"]>>

\* the last segment of a path that a route with a parameter matches
ParamOf(path, base) == SubSeq(path, Len(base) + 2, Len(path))

RouteMatches(route, req) ==
    /\ route.method = req.method
    /\ IF route.param
       THEN /\ StartsWith(req.path, route.base \o <<"/">>)
            /\ ParamOf(req.path, route.base) # <<>>
            /\ \A i \in 1..Len(ParamOf(req.path, route.base)) :
                    ParamOf(req.path, route.base)[i] # "/"
       ELSE req.path = route.base

\* the route a request is dispatched to; login and the static files are
\* mounted before the middleware
RouteOf(req, onDisk) ==
    IF req.method = "POST" /\ req.path = ApiAuthLogin THEN "login"
    ELSE IF req.method = "GET" /\ StartsWith(req.path, Uploads \o <<"/">>) /\ onDisk
    THEN "static"
    ELSE IF \E i \in 1..Len(Routes) : RouteMatches(Routes[i], req)
    THEN Routes[CHOOSE i \in 1..Len(Routes) :
                    /\ RouteMatches(Routes[i], req)
                    /\ \A j \in 1..(i - 1) : ~RouteMatches(Routes[j], req)].handler
    ELSE "none"

\* parseInt(req.params.id, 10), with 0 for NaN: the handlers refuse both
ParseIntParam(s) ==
    IF LeadingDigits(s) = <<>> THEN 0 ELSE CastInteger(LeadingDigits(s))

\* the requests: no Authorization header, another scheme, Bearer with nothing,
\* with a token of this server, with an expired one, with one signed otherwise
Methods == {"GET", "POST", "DELETE", "OPTIONS"}

Paths ==
    {ApiEmployees \o <<"/", "1">>, ApiVerify \o <<"/", "u">>,
     ApiCertificatesVerify \o <<"/", "c">>, ApiOfferLettersVerify \o <<"/", "o">>,
     ApiOfferLettersVerify, ApiOfferLetters \o <<"/", "1">>, ApiHealth, ApiAuthLogin,
     Uploads \o <<"/", "a">>}

Authorizations ==
    {<<>>, <<"B", "a", "s", "i", "c", " ", "x">>, BearerPrefix,
     BearerPrefix \o JwtSign(<<"k">>, TRUE), BearerPrefix \o JwtSign(<<"k">>, FALSE),
     BearerPrefix \o JwtSign(<<"j">>, TRUE)}

Requests == [method : Methods, path : Paths, authorization : Authorizations]

\* one request: the routes mounted before the middleware, the middleware,
\* the route handler.  answers holds the last request: result is the handler
\* that ran, about.auth what the middleware did
HandleRequest(req, onDisk) ==
    /\ Accept("request")
    /\ LET route == RouteOf(req, onDisk)
           auth == IF route \in {"login", "static"} THEN "skipped"
                   ELSE authenticateRequest(req)
           handler == IF auth \in {"401", "500"} THEN "none" ELSE route
           id == ParseIntParam(ParamOf(req.path,
                    IF handler = "deleteEmployee" THEN ApiEmployees ELSE ApiOfferLetters))
       IN  /\ answers' = {[kind |-> "request", result |-> handler,
                           about |-> [req |-> req, route |-> route, auth |-> auth]]}
           /\ employees' = IF handler = "deleteEmployee" /\ id > 0
                           THEN employees \ RowsWithId(employees, id)
                           ELSE employees
           /\ offer_letters' = IF handler = "deleteOfferLetter" /\ id > 0
                               THEN {l \in offer_letters : l.id # id}
                               ELSE offer_letters
    /\ UNCHANGED <<nextRowId, id_counters, txn, reqs, allocLog, everPersisted,
                   discarded, certificates, certificate_batches,
                   offer_letters_staging, offer_letter_batches, docSeq>>

InitAuth == SrvInit /\ DocsEmpty /\ CanonIdle /\ SignIdle /\ JWT_SECRET \in Secrets

\* onDisk: is there a file of that name in the uploads directory
NextAuth ==
    \E req \in Requests :
        \E onDisk \in IF StartsWith(req.path, Uploads) THEN BOOLEAN ELSE {FALSE} :
            HandleRequest(req, onDisk) /\ UNCHANGED pureVars

SpecAuth == InitAuth /\ [][NextAuth]_vars

\* a public request: method OPTIONS, a path under /uploads, a verification
\* endpoint, GET /api/health or POST /api/auth/login
PublicRequest(req) ==
    \/ req.method = "OPTIONS"
    \/ StartsWith(req.path, Uploads \o <<"/">>)
    \/ \E base \in {ApiVerify, ApiCertificatesVerify, ApiOfferLettersVerify} :
            req.path = base \/ StartsWith(req.path, base \o <<"/">>)
    \/ req.method = "GET" /\ req.path = ApiHealth
    \/ req.method = "POST" /\ req.path = ApiAuthLogin

\* the request carries a Bearer token that verifies against the configured secret
CarriesValidToken(req) ==
    /\ JWT_SECRET # <<>>
    /\ req.authorization = BearerPrefix \o JwtSign(JWT_SECRET, TRUE)

StoredData == <<employees, certificates, certificate_batches, offer_letters_staging,
                offer_letters, offer_letter_batches>>

====
